---- MODULE Spec2Model ----
(***************************************************************************)
(* A model of the orchestration core of bitcoin-system-test:               *)
(*   - the retry decorator             src/src/util/decorators.py          *)
(*   - the metrics sampler             src/resources/lib/metrics_collector.py *)
(*   - the node lifecycle and probes   src/resources/lib/bitcoin_core.py,  *)
(*                                     src/resources/lib/robustness.py     *)
(* Each component has a specification of its own (SpecRetry, ...); the     *)
(* variables of the components a specification does not exercise stay at  *)
(* their initial values.                                                   *)
(***************************************************************************)
EXTENDS Integers, Sequences, FiniteSets, TLC

VARIABLES
    \* ---- retry_on_error (decorators.py) ----
    max_retries,      \* decorator argument max_retries
    wait_time,        \* decorator argument wait_time after the None default is resolved
    w_func,           \* the function the wrapper wraps: "op" or "_start_victim_node"
    w_pc,             \* where the wrapper is: idle, call, sleep, returned, raised
    attempt,          \* the loop variable of `for attempt in range(max_attempts)`
    last_exception,   \* the wrapper's local last_exception
    w_result,         \* the value the wrapper returned or the exception it raised
    calls,            \* the outcomes of the invocations of func, in order
    sleeps,           \* the durations passed to time.sleep, in order
    \* ---- MetricsCollector (metrics_collector.py) ----
    collection_threads, \* self.collection_threads: node name -> thread
    stop_events,      \* self.stop_events: node name -> the stop event (of a thread)
    metrics_data,     \* self.metrics_data: node name -> list of snapshots
    metrics_lock,     \* self.metrics_lock: NoHolder, or the thread holding it
    threads,          \* the thread objects: node, loop position, stop event, locals
    now,              \* the last reading of the UTC clock datetime.now reads
    cpc,              \* per caller: where it is inside a collector method
    carg,             \* per caller: the node_name argument of the method it is in
    cret,             \* per caller: how its last call ended: ok, the warning it logged, the exception it raised
    summary,          \* the last get_metrics_summary call: its argument and the dict it returned
    c_copy,           \* per caller: save_metrics_to_file's local metrics_snapshot
    out_file,         \* the JSON document in the output file
    log_warned,       \* whether the logger's handlers (console and the two log files)
                      \* have written a "No metrics data found for ..." warning
    c_all,            \* per caller: stop_all_metrics_collection's local node_names, the
                      \* names its loop has still to stop, and whether the caller is in it
    \* ---- node lifecycle (bitcoin_core.py, robustness.py) ----
    pidfile,          \* per datadir: the PID record <datadir>/regtest/bitcoind.pid
    procs,            \* the daemons launched so far, by PID: datadir and state
    f_pc,             \* where a start is: none, settle (_start_victim_node in
                      \* time.sleep(3)), probe (at its _check_node_exited),
                      \* plain_settle (a plain start in time.sleep(2))
    n_dir,            \* the datadir argument of the lifecycle call in progress or last made
    nret,             \* how the last lifecycle call ended; pending while it runs
    launches,         \* subprocess.run launches made by the current fault-injected start
    n_op,             \* the lifecycle method called last
    n_slept,          \* the settle delay the last lifecycle call, or its current attempt,
                      \* has waited
    \* ---- the probes called on their own ----
    p_file,           \* the PID record the probe finds
    p_answer,         \* the OS's answer to os.kill(pid, 0)
    p_running,        \* what check_node_is_running did
    p_exited,         \* what _check_node_exited did
    \* ---- wait_for_node_to_start (bitcoin_core.py) ----
    wt_timeout,       \* the timeout argument
    wt_pc,            \* where the method is: idle, query, sleep, returned, raised
    wt_i,             \* the loop variable of `for i in range(timeout)`
    wt_queries,       \* the exit statuses of the bitcoin-cli queries made, in order
    wt_sleeps         \* the number of time.sleep(1) calls made

retryVars == <<max_retries, wait_time, w_func, w_pc, attempt, last_exception,
               w_result, calls, sleeps>>

samplerVars == <<collection_threads, stop_events, metrics_data, metrics_lock,
                 threads, now, cpc, carg, cret>>

readerVars == <<summary, c_copy, out_file, log_warned, c_all>>

metricsVars == <<samplerVars, readerVars>>

nodeVars == <<pidfile, procs, f_pc, n_dir, nret, launches, n_op, n_slept>>

probeVars == <<p_file, p_answer, p_running, p_exited>>

waitVars == <<wt_timeout, wt_pc, wt_i, wt_queries, wt_sleeps>>

vars == <<retryVars, metricsVars, nodeVars, probeVars, waitVars>>

\* ------------------------------------------------------------------ bounds
\* The largest max_retries the decorator is configured with.
MaxRetries == 3

\* The number of sampling threads ever started, the last clock value, and the
\* number of samples a node's list and its loops in flight hold together.
\* The length of the PID records the stand-alone probes are tried on.
MaxPidLen == 3
\* The largest timeout wait_for_node_to_start is called with.
MaxTimeout == 8
MaxThreads == 2
MaxClock == 1
MaxSamples == 2

\* ------------------------------------------------------- retry_on_error
None == [kind |-> "None", id |-> 0]

\* random.randint(10, 20), decorators.py line 18
RandLo == 10
RandHi == 20

\* the wait_time arguments a caller passes explicitly
WaitArgs == {0, 5}

\* the exceptions the generic operation raises, and the values it returns
ErrorKinds == {"IOError", "RuntimeError"}
Values == {"v1", "v2"}

\* An exception object: its kind and the invocation that created it (its identity).
Exc(kind, n) == [kind |-> kind, id |-> n]

\* `if wait_time is None: wait_time = random.randint(10, 20)`: the values the
\* decorator's wait_time can take for an argument (NoArg: not supplied).
NoArg == -1
ResolveWaitTime(arg) == IF arg = NoArg THEN RandLo..RandHi ELSE {arg}

\* max_attempts = max_retries + 1
MaxAttemptsDropFirst(n) == n
MaxAttempts(n) == n + 1

\* the argument of time.sleep in the except clause
SleepDurationBackoff(w, a) == w * (a + 1)
SleepDuration(w, a) == w

\* last_exception = e
KeepFirstException(old, e) == IF old = None THEN e ELSE old
RememberException(old, e) == e

\* `raise last_exception`: raising None is a TypeError
RaiseOf(le) == IF le = None THEN Exc("TypeError", 0) ELSE le

\* The head of the for loop asked for the value a of range(max_attempts):
\* another iteration with attempt bound to a, or the range is exhausted, the
\* loop variable keeps its last value and the wrapper raises last_exception.
ForLoop(a, le) ==
    IF a < MaxAttempts(max_retries)
      THEN /\ w_pc' = "call"
           /\ attempt' = a
           /\ w_result' = w_result
      ELSE /\ w_pc' = "raised"
           /\ attempt' = attempt
           /\ w_result' = RaiseOf(le)

\* wrapper(*args, **kwargs) is entered.
WrapperCall ==
    /\ w_pc \in {"idle", "returned", "raised"}
    /\ calls' = <<>>
    /\ sleeps' = <<>>
    /\ last_exception' = None
    /\ ForLoop(0, None)
    /\ UNCHANGED <<max_retries, wait_time, w_func>>

\* `return func(*args, **kwargs)` returned v.
WrapperReturn(v) ==
    /\ calls' = Append(calls, [ok |-> TRUE, val |-> v])
    /\ w_pc' = "returned"
    /\ w_result' = v
    /\ UNCHANGED <<max_retries, wait_time, w_func, attempt, last_exception, sleeps>>

\* `except Exception as e`: func raised an exception of this kind.
WrapperExcept(kind) ==
    LET e == Exc(kind, Len(calls) + 1)
        le == RememberException(last_exception, e)
    IN  /\ calls' = Append(calls, [ok |-> FALSE, exc |-> e])
        /\ last_exception' = le
        /\ IF attempt < max_retries
             THEN /\ sleeps' = Append(sleeps, SleepDuration(wait_time, attempt))
                  /\ w_pc' = "sleep"
                  /\ UNCHANGED <<attempt, w_result>>
             ELSE /\ sleeps' = sleeps
                  /\ ForLoop(attempt + 1, le)
        /\ UNCHANGED <<max_retries, wait_time, w_func>>

\* time.sleep(wait_time) returns and the loop goes to its next iteration.
WrapperSleep ==
    /\ w_pc = "sleep"
    /\ ForLoop(attempt + 1, last_exception)
    /\ UNCHANGED <<max_retries, wait_time, w_func, last_exception, calls, sleeps>>

\* The generic wrapped operation runs once: it returns a value or raises.
OpReturns ==
    /\ w_pc = "call"
    /\ w_func = "op"
    /\ \E v \in Values : WrapperReturn(v)

OpRaises ==
    /\ w_pc = "call"
    /\ w_func = "op"
    /\ \E k \in ErrorKinds : WrapperExcept(k)

\* retry_on_error(max_retries, wait_time) has decorated a function.
RetryDecorated(f, retries, waits) ==
    /\ w_func = f
    /\ max_retries \in retries
    /\ \E arg \in waits : wait_time \in ResolveWaitTime(arg)
    /\ w_pc = "idle"
    /\ attempt = 0
    /\ last_exception = None
    /\ w_result = None
    /\ calls = <<>>
    /\ sleeps = <<>>

\* ------------------------------------------------------ MetricsCollector
NodeNames == {"generator", "victim"}
\* the names SpecMetrics starts and stops sessions for
SessionNames == {"victim"}
\* the callers of the collector's methods: the main control flow, which is the
\* only caller in every specification but SpecRace, and a second one
Callers == {"c1", "c2"}
MainCaller == {"c1"}
NoHolder == 0
\* a caller that is in no method has no node_name argument
NoName == "none"

\* What _execute_rpc returns: None (non-zero exit status, timeout, unparsable
\* output) or the parsed JSON.
RpcNone == [ok |-> FALSE]
RpcJson(v) == [ok |-> TRUE, json |-> v]
Heights == {100, 101}
\* an answer of {} parses to a dict with no key
BlockchainResults == {RpcNone, RpcJson(<<>>)} \cup {RpcJson([blocks |-> h]) : h \in Heights}
PeerResults == {RpcNone, RpcJson(<<>>), RpcJson(<<"peer">>)}
\* the answers (getblockchaininfo, getpeerinfo) SpecMetrics gives a sample: both
\* queries fail; the first answers {} and the second fails; both succeed; both
\* succeed and the node has no peer
SampleAnswers ==
    { <<RpcNone, RpcNone>>,
      <<RpcJson(<<>>), RpcNone>>,
      <<RpcJson([blocks |-> 100]), RpcJson(<<"peer">>)>>,
      <<RpcJson([blocks |-> 101]), RpcJson(<<>>)>> }

\* `if blockchain_info:` / `if peer_info:`: None, {} and [] are false.
TruthyDict(r) == r.ok /\ DOMAIN r.json # {}
TruthyList(r) == r.ok /\ Len(r.json) > 0

\* The dict _collect_node_metrics builds before the queries.
NewMetricsOneName(node_name, ts) == [timestamp |-> ts, node_name |-> "victim"]
NewMetrics(node_name, ts) == [timestamp |-> ts, node_name |-> node_name]

\* The dict _collect_node_metrics returns: a key is set only for a true result.
WithBlockchainInfo(m, r) ==
    IF TruthyDict(r)
      THEN [k \in DOMAIN m \cup {"blockchain_info"} |->
               IF k = "blockchain_info" THEN r.json ELSE m[k]]
      ELSE m

WithPeerInfo(m, r) ==
    IF TruthyList(r)
      THEN [k \in DOMAIN m \cup {"peer_info"} |->
               IF k = "peer_info" THEN r.json ELSE m[k]]
      ELSE m

\* _collect_node_metrics(node_name, ...) with the clock at ts and the two
\* queries answering bi and pi.
CollectNodeMetrics(node_name, ts, bi, pi) ==
    WithPeerInfo(WithBlockchainInfo(NewMetrics(node_name, ts), bi), pi)

\* `if metrics:`: a dict is true when it has a key.
TruthyMetrics(m) == DOMAIN m # {}

\* A thread's locals when it holds no sample.
NoMetrics == [k \in {} |-> 0]

\* thread.is_alive(): started and not ended
Alive(t) == threads[t].pc \notin {"new", "dead"}
InSample(t) == threads[t].pc \in {"sampling", "locked"}

\* A dict without a key (del d[k]) and with a key set (d[k] = v).
Del(d, k) == [x \in DOMAIN d \ {k} |-> d[x]]
Put(d, k, v) == [x \in DOMAIN d \cup {k} |-> IF x = k THEN v ELSE d[x]]

\* A thread object and its stop event are one entry of `threads`: node is the
\* loop's node_name, pc its position ("new" before thread.start()), stop_set
\* the event's flag, metrics the sample the loop holds, and by the caller whose
\* start_metrics_collection still has the two in its local variables (NoCaller
\* once it has returned). An entry lives while its loop runs or a table or a
\* caller refers to it; a new one takes the first free place.
NoCaller == "none"
Referenced(t, ct, se) ==
    \/ \E n \in DOMAIN ct : ct[n] = t
    \/ \E n \in DOMAIN se : se[n] = t
Collect(th, ct, se) ==
    [t \in {u \in DOMAIN th : \/ th[u].pc # "dead"
                              \/ th[u].by # NoCaller
                              \/ Referenced(u, ct, se)} |-> th[t]]
ThreadIds == 1..MaxThreads
FreeId == CHOOSE i \in ThreadIds \ DOMAIN threads :
              \A j \in ThreadIds \ DOMAIN threads : i <= j

\* The samples a node's list holds plus those its loops have in flight.
Load(n) ==
    (IF n \in DOMAIN metrics_data THEN Len(metrics_data[n]) ELSE 0)
    + Cardinality({t \in DOMAIN threads : threads[t].node = n /\ InSample(t)})

LoopVarsUnchanged == UNCHANGED <<collection_threads, stop_events, cpc, carg, cret>>

\* stop_event.is_set(), as the loop of thread t reads it
IsSetNever(t) == FALSE
IsSetAlways(t) == TRUE
IsSet(t) == threads[t].stop_set

\* `while not stop_event.is_set()` finds the event set: the loop, and with it
\* the thread, ends.
LoopExit(t) ==
    /\ threads[t].pc = "top"
    /\ IsSet(t)
    /\ threads' = Collect([threads EXCEPT ![t].pc = "dead"],
                          collection_threads, stop_events)
    /\ UNCHANGED <<metrics_data, metrics_lock, now>>
    /\ LoopVarsUnchanged

\* datetime.now(timezone.utc) reads ts from a clock that never runs backwards:
\* now is the clock's last reading.
ClockReads(ts) ==
    /\ ts \in now..MaxClock
    /\ now' = ts

\* The event is not set: _collect_node_metrics reads the clock (ts) and runs its
\* two queries, whose answers are bi and pi. The thread then holds the dict to
\* append (position "sampling") until it has the lock.
LoopSample(t, ts, bi, pi) ==
    /\ threads[t].pc = "top"
    /\ ~IsSet(t)
    /\ Load(threads[t].node) < MaxSamples
    /\ ClockReads(ts)
    /\ LET m == CollectNodeMetrics(threads[t].node, ts, bi, pi)
       IN  threads' = [threads EXCEPT
               ![t].pc = IF TruthyMetrics(m) THEN "sampling" ELSE "wait",
               ![t].metrics = IF TruthyMetrics(m) THEN m ELSE NoMetrics]
    /\ UNCHANGED <<metrics_data, metrics_lock>>
    /\ LoopVarsUnchanged

\* `with self.metrics_lock: self.metrics_data[node_name].append(metrics)`. A
\* missing list is a KeyError, which the loop's except clause logs.
LoopAppend(t) ==
    /\ threads[t].pc = "sampling"
    /\ metrics_lock = NoHolder
    /\ LET n == threads[t].node
       IN  metrics_data' =
             IF n \in DOMAIN metrics_data
               THEN [metrics_data EXCEPT ![n] = Append(@, threads[t].metrics)]
               ELSE metrics_data
    /\ threads' = [threads EXCEPT ![t].pc = "wait", ![t].metrics = NoMetrics]
    /\ UNCHANGED <<metrics_lock, now>>
    /\ LoopVarsUnchanged

\* stop_event.wait(timeout=interval) returns: the interval elapsed or the
\* event was set.
LoopWait(t) ==
    /\ threads[t].pc = "wait"
    /\ threads' = [threads EXCEPT ![t].pc = "top"]
    /\ UNCHANGED <<metrics_data, metrics_lock, now>>
    /\ LoopVarsUnchanged

\* The guard of start_metrics_collection: a session exists for the name.
AlreadyRunningNever(n) == FALSE
AlreadyRunning(n) == n \in DOMAIN collection_threads

\* start_metrics_collection(node_name, ...): the guard, `if node_name in
\* self.collection_threads: return`. A call that goes on has the lock to take.
start_metrics_collection(c, n) ==
    /\ cpc[c] = "idle"
    /\ IF AlreadyRunning(n)
         THEN /\ cret' = [cret EXCEPT ![c] = "already_running"]
              /\ UNCHANGED <<cpc, carg>>
         ELSE /\ DOMAIN threads # ThreadIds
              /\ cpc' = [cpc EXCEPT ![c] = "start_lock"]
              /\ carg' = [carg EXCEPT ![c] = n]
              /\ cret' = [cret EXCEPT ![c] = "ok"]
    /\ UNCHANGED <<collection_threads, stop_events, metrics_data, metrics_lock,
                   threads, now>>

\* `with self.metrics_lock: self.metrics_data[node_name] = []`: the lock is
\* taken once it is free, the list reset and the lock released. The method
\* goes on without the lock.
StartInit(c) ==
    /\ cpc[c] = "start_lock"
    /\ metrics_lock = NoHolder
    /\ metrics_data' = Put(metrics_data, carg[c], <<>>)
    /\ cpc' = [cpc EXCEPT ![c] = "start_event"]
    /\ UNCHANGED <<collection_threads, stop_events, metrics_lock, threads, now,
                   carg, cret>>

\* The thread and event caller c's start_metrics_collection has made.
StartedBy(c) == CHOOSE t \in DOMAIN threads : threads[t].by = c

\* stop_event = threading.Event(); self.stop_events[node_name] = stop_event
StartEvent(c) ==
    /\ cpc[c] = "start_event"
    /\ DOMAIN threads # ThreadIds
    /\ stop_events' = Put(stop_events, carg[c], FreeId)
    /\ threads' = Collect(Put(threads, FreeId,
                               [node |-> carg[c], pc |-> "new", stop_set |-> FALSE,
                                metrics |-> NoMetrics, by |-> c]),
                           collection_threads, stop_events')
    /\ cpc' = [cpc EXCEPT ![c] = "start_thread"]
    /\ UNCHANGED <<collection_threads, metrics_data, metrics_lock, now, carg, cret>>

\* thread = threading.Thread(target=self._collect_metrics_loop, ...);
\* thread.start(): the loop runs from here on.
StartThread(c) ==
    /\ cpc[c] = "start_thread"
    /\ threads' = [threads EXCEPT ![StartedBy(c)].pc = "top"]
    /\ cpc' = [cpc EXCEPT ![c] = "start_register"]
    /\ UNCHANGED <<collection_threads, stop_events, metrics_data, metrics_lock,
                   now, carg, cret>>

\* self.collection_threads[node_name] = thread, and the method returns.
StartRegister(c) ==
    /\ cpc[c] = "start_register"
    /\ collection_threads' = Put(collection_threads, carg[c], StartedBy(c))
    /\ threads' = Collect([threads EXCEPT ![StartedBy(c)].by = NoCaller],
                           collection_threads', stop_events)
    /\ cpc' = [cpc EXCEPT ![c] = "idle"]
    /\ carg' = [carg EXCEPT ![c] = NoName]
    /\ cret' = [cret EXCEPT ![c] = "ok"]
    /\ UNCHANGED <<stop_events, metrics_data, metrics_lock, now>>

\* The guard of stop_metrics_collection: no session exists for the name.
NotRunningNever(n) == FALSE
NotRunning(n) == n \notin DOMAIN collection_threads

\* stop_metrics_collection(node_name): `if node_name not in self.collection_threads`
stop_metrics_collection(c, n) ==
    /\ cpc[c] = "idle"
    /\ IF NotRunning(n)
         THEN /\ cret' = [cret EXCEPT ![c] = "not_running"]
              /\ UNCHANGED <<cpc, carg>>
         ELSE /\ cret' = [cret EXCEPT ![c] = "ok"]
              /\ cpc' = [cpc EXCEPT ![c] = "stop_set"]
              /\ carg' = [carg EXCEPT ![c] = n]
    /\ UNCHANGED <<collection_threads, stop_events, metrics_data, metrics_lock,
                   threads, now>>

\* A dict lookup that fails raises KeyError out of the method.
RaiseKeyError(c) ==
    /\ cpc' = [cpc EXCEPT ![c] = "idle"]
    /\ carg' = [carg EXCEPT ![c] = NoName]
    /\ cret' = [cret EXCEPT ![c] = "KeyError"]

\* self.stop_events[node_name].set()
StopSet(c) ==
    /\ cpc[c] = "stop_set"
    /\ IF carg[c] \in DOMAIN stop_events
         THEN /\ threads' = [threads EXCEPT ![stop_events[carg[c]]].stop_set = TRUE]
              /\ cpc' = [cpc EXCEPT ![c] = "stop_join"]
              /\ UNCHANGED <<cret, carg>>
         ELSE /\ RaiseKeyError(c)
              /\ UNCHANGED threads
    /\ UNCHANGED <<collection_threads, stop_events, metrics_data, metrics_lock, now>>

\* self.collection_threads[node_name].join(timeout=5) returns: the thread has
\* ended, or the timeout elapsed with the thread still alive.
JoinReturns(t) == TRUE

StopJoin(c) ==
    /\ cpc[c] = "stop_join"
    /\ IF carg[c] \in DOMAIN collection_threads
         THEN /\ JoinReturns(collection_threads[carg[c]])
              /\ cpc' = [cpc EXCEPT ![c] = "stop_del_thread"]
              /\ UNCHANGED <<cret, carg>>
         ELSE RaiseKeyError(c)
    /\ UNCHANGED <<collection_threads, stop_events, metrics_data, metrics_lock,
                   threads, now>>

\* del self.collection_threads[node_name]
StopDelThread(c) ==
    /\ cpc[c] = "stop_del_thread"
    /\ IF carg[c] \in DOMAIN collection_threads
         THEN /\ collection_threads' = Del(collection_threads, carg[c])
              /\ threads' = Collect(threads, collection_threads', stop_events)
              /\ cpc' = [cpc EXCEPT ![c] = "stop_del_event"]
              /\ UNCHANGED <<cret, carg>>
         ELSE /\ RaiseKeyError(c)
              /\ UNCHANGED <<collection_threads, threads>>
    /\ UNCHANGED <<stop_events, metrics_data, metrics_lock, now>>

\* The stop-event table after `del self.stop_events[node_name]`
EventsKept(n) == stop_events
EventsAfterDel(n) == Del(stop_events, n)

\* del self.stop_events[node_name], and the method returns.
StopDelEvent(c) ==
    /\ cpc[c] = "stop_del_event"
    /\ IF carg[c] \in DOMAIN stop_events
         THEN /\ stop_events' = EventsAfterDel(carg[c])
              /\ threads' = Collect(threads, collection_threads, stop_events')
              /\ cpc' = [cpc EXCEPT ![c] = "idle"]
              /\ carg' = [carg EXCEPT ![c] = NoName]
              /\ cret' = [cret EXCEPT ![c] = "ok"]
         ELSE /\ RaiseKeyError(c)
              /\ UNCHANGED <<stop_events, threads>>
    /\ UNCHANGED <<collection_threads, metrics_data, metrics_lock, now>>

\* MetricsCollector.__init__
SamplerInit ==
    /\ collection_threads = [n \in {} |-> 0]
    /\ stop_events = [n \in {} |-> 0]
    /\ metrics_data = [n \in {} |-> <<>>]
    /\ metrics_lock = NoHolder
    /\ threads = [t \in {} |-> 0]
    /\ now = 0
    /\ cpc = [c \in Callers |-> "idle"]
    /\ carg = [c \in Callers |-> NoName]
    /\ cret = [c \in Callers |-> "ok"]

\* ---------------------------------------------- summary, export, stop all
\* m.get(key, default)
Get(m, key, default) == IF key \in DOMAIN m THEN m[key] ELSE default

\* [m.get('blockchain_info', {}).get('blocks', 0) for m in metrics]
BlockCounts(metrics) ==
    [i \in 1..Len(metrics) |-> Get(Get(metrics[i], "blockchain_info", NoMetrics), "blocks", 0)]

\* [len(m.get('peer_info', [])) for m in metrics]
PeerCounts(metrics) ==
    [i \in 1..Len(metrics) |-> Len(Get(metrics[i], "peer_info", <<>>))]

RECURSIVE Sum(_)
Sum(s) == IF s = <<>> THEN 0 ELSE Head(s) + Sum(Tail(s))
Max(s) == CHOOSE x \in {s[i] : i \in 1..Len(s)} : \A i \in 1..Len(s) : s[i] <= x

\* a / b of two integers is a float: the quotient, as a fraction in lowest terms
RECURSIVE Gcd(_, _)
Gcd(a, b) == IF b = 0 THEN a ELSE Gcd(b, a % b)
Quotient(a, b) ==
    LET g == Gcd(a, b) IN IF g = 0 THEN [num |-> 0, den |-> 1]
                          ELSE [num |-> a \div g, den |-> b \div g]

\* block_counts[-1] - block_counts[0]
BlocksSyncedLastOnly(first, last) == last
BlocksSynced(first, last) == last - first

\* `return {}`
EmptySummary == [k \in {} |-> 0]
\* `if not metrics: return {}`
SummaryOfNoSnapshotsZeros == [total_snapshots |-> 0]
SummaryOfNoSnapshots == EmptySummary

\* The summary dict of a list that is not empty.
SummaryOf(metrics) ==
    LET block_counts == BlockCounts(metrics)
        peer_counts == PeerCounts(metrics)
    IN  [total_snapshots |-> Len(metrics),
         first_snapshot |-> Get(metrics[1], "timestamp", "None"),
         last_snapshot |-> Get(metrics[Len(metrics)], "timestamp", "None"),
         initial_block_count |-> block_counts[1],
         final_block_count |-> block_counts[Len(block_counts)],
         blocks_synced |-> BlocksSynced(block_counts[1], block_counts[Len(block_counts)]),
         avg_peer_count |-> Quotient(Sum(peer_counts), Len(peer_counts)),
         max_peer_count |-> Max(peer_counts)]

\* no summary has been asked for
NoSummary == [node |-> NoName, value |-> EmptySummary]

\* get_metrics_summary(node_name), the block under the lock: `return {}` for a
\* missing name, else metrics = self.metrics_data[node_name].copy() and the
\* block is left; SummaryCompute follows the copy.
get_metrics_summary(c, n) ==
    /\ cpc[c] = "idle"
    /\ metrics_lock = NoHolder
    /\ IF n \notin DOMAIN metrics_data
         THEN /\ summary' = [node |-> n, value |-> EmptySummary]
              /\ cret' = [cret EXCEPT ![c] = "summary"]
              /\ UNCHANGED <<cpc, carg, c_copy>>
         ELSE /\ c_copy' = [c_copy EXCEPT ![c] = metrics_data[n]]
              /\ cpc' = [cpc EXCEPT ![c] = "summary_compute"]
              /\ carg' = [carg EXCEPT ![c] = n]
              /\ UNCHANGED <<summary, cret>>
    /\ UNCHANGED <<collection_threads, stop_events, metrics_data, metrics_lock,
                   threads, now, out_file, log_warned, c_all>>

\* get_metrics_summary after the block: `if not metrics: return {}`, else the
\* summary of the copy is computed and returned.
SummaryCompute(c) ==
    /\ cpc[c] = "summary_compute"
    /\ summary' = [node |-> carg[c],
                   value |-> IF c_copy[c] = <<>> THEN SummaryOfNoSnapshots
                             ELSE SummaryOf(c_copy[c])]
    /\ c_copy' = [c_copy EXCEPT ![c] = <<>>]
    /\ cpc' = [cpc EXCEPT ![c] = "idle"]
    /\ carg' = [carg EXCEPT ![c] = NoName]
    /\ cret' = [cret EXCEPT ![c] = "summary"]
    /\ UNCHANGED <<collection_threads, stop_events, metrics_data, metrics_lock,
                   threads, now, out_file, log_warned, c_all>>

\* json.dump: a JSON document is modelled by its tree. A snapshot is written
\* as an object whose members keep the order the keys were set in.
KeyOrder == <<"timestamp", "node_name", "blockchain_info", "peer_info">>
JsonString(v) == [type |-> "string", of |-> v]
JsonNumber(v) == [type |-> "number", n |-> v]
JsonValue(k, v) ==
    CASE k = "timestamp" -> [type |-> "string", iso |-> v]
      [] k = "node_name" -> JsonString(v)
      [] k = "blockchain_info" ->
           [type |-> "object",
            members |-> <<[key |-> "blocks", value |-> JsonNumber(v.blocks)]>>]
      [] k = "peer_info" ->
           [type |-> "array", items |-> [i \in 1..Len(v) |-> JsonString(v[i])]]
PresentKey(m, k) == k \in DOMAIN m
JsonObject(m) ==
    LET keys == SelectSeq(KeyOrder, LAMBDA k : PresentKey(m, k))
    IN  [type |-> "object",
         members |-> [i \in 1..Len(keys) |-> [key |-> keys[i], value |-> JsonValue(keys[i], m[keys[i]])]]]
JsonDump(metrics) ==
    [type |-> "array", items |-> [i \in 1..Len(metrics) |-> JsonObject(metrics[i])]]

\* json.load: the Python value of a JSON document.
PyValue(k, j) ==
    CASE k = "timestamp" -> j.iso
      [] k = "node_name" -> j.of
      [] k = "blockchain_info" -> [blocks |-> j.members[1].value.n]
      [] k = "peer_info" -> [i \in 1..Len(j.items) |-> j.items[i].of]
PyDict(j) ==
    [k \in {j.members[i].key : i \in 1..Len(j.members)} |->
        LET i == CHOOSE x \in 1..Len(j.members) :
                     /\ j.members[x].key = k
                     /\ \A y \in 1..Len(j.members) : j.members[y].key = k => y <= x
        IN  PyValue(k, j.members[i].value)]
JsonLoad(j) == [i \in 1..Len(j.items) |-> PyDict(j.items[i])]

\* no file has been written
NoFile == [type |-> "none"]

\* save_metrics_to_file(node_name, output_file), under the lock: a missing
\* name is logged and the method returns; otherwise the list is copied.
save_metrics_to_file(c, n) ==
    /\ cpc[c] = "idle"
    /\ metrics_lock = NoHolder
    /\ IF n \notin DOMAIN metrics_data
         THEN /\ log_warned' = TRUE
              /\ cret' = [cret EXCEPT ![c] = "no_data"]
              /\ UNCHANGED <<cpc, carg, c_copy>>
         ELSE /\ c_copy' = [c_copy EXCEPT ![c] = metrics_data[n]]
              /\ cpc' = [cpc EXCEPT ![c] = "save_write"]
              /\ carg' = [carg EXCEPT ![c] = n]
              /\ UNCHANGED <<cret, log_warned>>
    /\ UNCHANGED <<collection_threads, stop_events, metrics_data, metrics_lock,
                   threads, now, summary, out_file, c_all>>

\* The list json.dump writes: the copy made under the lock.
ListToWriteLive(c) == metrics_data[carg[c]]
ListToWrite(c) == c_copy[c]

\* `with open(output_path, 'w') as f: json.dump(metrics_snapshot, f, indent=2)`,
\* and the method returns.
SaveWrite(c) ==
    /\ cpc[c] = "save_write"
    /\ out_file' = JsonDump(ListToWrite(c))
    /\ c_copy' = [c_copy EXCEPT ![c] = <<>>]
    /\ cpc' = [cpc EXCEPT ![c] = "idle"]
    /\ carg' = [carg EXCEPT ![c] = NoName]
    /\ cret' = [cret EXCEPT ![c] = "saved"]
    /\ UNCHANGED <<collection_threads, stop_events, metrics_data, metrics_lock,
                   threads, now, summary, log_warned, c_all>>

\* The orders list(self.collection_threads.keys()) can have: the names of the
\* sessions in the order they were started, any order as far as the tables
\* of the model tell.
Orders(S) ==
    {s \in UNION {[1..k -> S] : k \in {Cardinality(S)}} :
        \A i, j \in 1..Len(s) : i # j => s[i] # s[j]}

\* node_names = list(self.collection_threads.keys())
StopAllListFirstOnly(names) == IF names = <<>> THEN names ELSE <<Head(names)>>
StopAllList(names) == names

\* The caller is inside stop_all_metrics_collection.
InStopAll(c) == c_all[c].active

\* stop_all_metrics_collection() is called: the names are listed.
stop_all_metrics_collection(c, names) ==
    /\ cpc[c] = "idle"
    /\ ~InStopAll(c)
    /\ names \in Orders(DOMAIN collection_threads)
    /\ c_all' = [c_all EXCEPT ![c] = [active |-> TRUE, rest |-> StopAllList(names),
                                      names |-> names]]
    /\ cret' = [cret EXCEPT ![c] = "stop_all"]
    /\ UNCHANGED <<collection_threads, stop_events, metrics_data, metrics_lock,
                   threads, now, cpc, carg, summary, c_copy, out_file, log_warned>>

\* `for node_name in node_names: self.stop_metrics_collection(node_name)`: the
\* call made for the previous name has ended. Its exception ends the method;
\* otherwise the next name is stopped, or the list is done and the method
\* returns.
StopAllNext(c) ==
    /\ cpc[c] = "idle"
    /\ InStopAll(c)
    /\ IF cret[c] = "KeyError"
         THEN /\ c_all' = [c_all EXCEPT ![c].active = FALSE, ![c].rest = <<>>]
              /\ UNCHANGED <<collection_threads, stop_events, metrics_data,
                             metrics_lock, threads, now, cpc, carg, cret>>
         ELSE IF c_all[c].rest = <<>>
         THEN /\ c_all' = [c_all EXCEPT ![c].active = FALSE]
              /\ cret' = [cret EXCEPT ![c] = "all_stopped"]
              /\ UNCHANGED <<collection_threads, stop_events, metrics_data,
                             metrics_lock, threads, now, cpc, carg>>
         ELSE /\ stop_metrics_collection(c, Head(c_all[c].rest))
              /\ c_all' = [c_all EXCEPT ![c].rest = Tail(@)]
    /\ UNCHANGED <<summary, c_copy, out_file, log_warned>>

ReadersInit ==
    /\ summary = NoSummary
    /\ c_copy = [c \in Callers |-> <<>>]
    /\ out_file = NoFile
    /\ log_warned = FALSE
    /\ c_all = [c \in Callers |-> [active |-> FALSE, rest |-> <<>>, names |-> <<>>]]


MetricsCollectorInit == SamplerInit /\ ReadersInit

\* The collector as the other specifications leave it: constructed, never used.
MetricsUnused == MetricsCollectorInit

\* ------------------------------------------- PID record and health probes
\* The PID record <datadir>/regtest/bitcoind.pid: absent, or a text.
Absent == [exists |-> FALSE, text |-> <<>>]
File(text) == [exists |-> TRUE, text |-> text]

Digits == <<"0", "1", "2", "3", "4", "5", "6", "7", "8", "9">>
\* the digits of C (isdigit, strtoul)
IsCDigit(c) == \E i \in 1..10 : Digits[i] = c

\* int() reads every decimal digit of Unicode: the ASCII digits and the digits
\* 0..9 of the other scripts, each written as its Python escape.
OtherDigits ==
    <<
      <<"\\u0660", "\\u0661", "\\u0662", "\\u0663", "\\u0664",
        "\\u0665", "\\u0666", "\\u0667", "\\u0668", "\\u0669">>,
      <<"\\u06f0", "\\u06f1", "\\u06f2", "\\u06f3", "\\u06f4",
        "\\u06f5", "\\u06f6", "\\u06f7", "\\u06f8", "\\u06f9">>,
      <<"\\u07c0", "\\u07c1", "\\u07c2", "\\u07c3", "\\u07c4",
        "\\u07c5", "\\u07c6", "\\u07c7", "\\u07c8", "\\u07c9">>,
      <<"\\u0966", "\\u0967", "\\u0968", "\\u0969", "\\u096a",
        "\\u096b", "\\u096c", "\\u096d", "\\u096e", "\\u096f">>,
      <<"\\u09e6", "\\u09e7", "\\u09e8", "\\u09e9", "\\u09ea",
        "\\u09eb", "\\u09ec", "\\u09ed", "\\u09ee", "\\u09ef">>,
      <<"\\u0a66", "\\u0a67", "\\u0a68", "\\u0a69", "\\u0a6a",
        "\\u0a6b", "\\u0a6c", "\\u0a6d", "\\u0a6e", "\\u0a6f">>,
      <<"\\u0ae6", "\\u0ae7", "\\u0ae8", "\\u0ae9", "\\u0aea",
        "\\u0aeb", "\\u0aec", "\\u0aed", "\\u0aee", "\\u0aef">>,
      <<"\\u0b66", "\\u0b67", "\\u0b68", "\\u0b69", "\\u0b6a",
        "\\u0b6b", "\\u0b6c", "\\u0b6d", "\\u0b6e", "\\u0b6f">>,
      <<"\\u0be6", "\\u0be7", "\\u0be8", "\\u0be9", "\\u0bea",
        "\\u0beb", "\\u0bec", "\\u0bed", "\\u0bee", "\\u0bef">>,
      <<"\\u0c66", "\\u0c67", "\\u0c68", "\\u0c69", "\\u0c6a",
        "\\u0c6b", "\\u0c6c", "\\u0c6d", "\\u0c6e", "\\u0c6f">>,
      <<"\\u0ce6", "\\u0ce7", "\\u0ce8", "\\u0ce9", "\\u0cea",
        "\\u0ceb", "\\u0cec", "\\u0ced", "\\u0cee", "\\u0cef">>,
      <<"\\u0d66", "\\u0d67", "\\u0d68", "\\u0d69", "\\u0d6a",
        "\\u0d6b", "\\u0d6c", "\\u0d6d", "\\u0d6e", "\\u0d6f">>,
      <<"\\u0de6", "\\u0de7", "\\u0de8", "\\u0de9", "\\u0dea",
        "\\u0deb", "\\u0dec", "\\u0ded", "\\u0dee", "\\u0def">>,
      <<"\\u0e50", "\\u0e51", "\\u0e52", "\\u0e53", "\\u0e54",
        "\\u0e55", "\\u0e56", "\\u0e57", "\\u0e58", "\\u0e59">>,
      <<"\\u0ed0", "\\u0ed1", "\\u0ed2", "\\u0ed3", "\\u0ed4",
        "\\u0ed5", "\\u0ed6", "\\u0ed7", "\\u0ed8", "\\u0ed9">>,
      <<"\\u0f20", "\\u0f21", "\\u0f22", "\\u0f23", "\\u0f24",
        "\\u0f25", "\\u0f26", "\\u0f27", "\\u0f28", "\\u0f29">>,
      <<"\\u1040", "\\u1041", "\\u1042", "\\u1043", "\\u1044",
        "\\u1045", "\\u1046", "\\u1047", "\\u1048", "\\u1049">>,
      <<"\\u1090", "\\u1091", "\\u1092", "\\u1093", "\\u1094",
        "\\u1095", "\\u1096", "\\u1097", "\\u1098", "\\u1099">>,
      <<"\\u17e0", "\\u17e1", "\\u17e2", "\\u17e3", "\\u17e4",
        "\\u17e5", "\\u17e6", "\\u17e7", "\\u17e8", "\\u17e9">>,
      <<"\\u1810", "\\u1811", "\\u1812", "\\u1813", "\\u1814",
        "\\u1815", "\\u1816", "\\u1817", "\\u1818", "\\u1819">>,
      <<"\\u1946", "\\u1947", "\\u1948", "\\u1949", "\\u194a",
        "\\u194b", "\\u194c", "\\u194d", "\\u194e", "\\u194f">>,
      <<"\\u19d0", "\\u19d1", "\\u19d2", "\\u19d3", "\\u19d4",
        "\\u19d5", "\\u19d6", "\\u19d7", "\\u19d8", "\\u19d9">>,
      <<"\\u1a80", "\\u1a81", "\\u1a82", "\\u1a83", "\\u1a84",
        "\\u1a85", "\\u1a86", "\\u1a87", "\\u1a88", "\\u1a89">>,
      <<"\\u1a90", "\\u1a91", "\\u1a92", "\\u1a93", "\\u1a94",
        "\\u1a95", "\\u1a96", "\\u1a97", "\\u1a98", "\\u1a99">>,
      <<"\\u1b50", "\\u1b51", "\\u1b52", "\\u1b53", "\\u1b54",
        "\\u1b55", "\\u1b56", "\\u1b57", "\\u1b58", "\\u1b59">>,
      <<"\\u1bb0", "\\u1bb1", "\\u1bb2", "\\u1bb3", "\\u1bb4",
        "\\u1bb5", "\\u1bb6", "\\u1bb7", "\\u1bb8", "\\u1bb9">>,
      <<"\\u1c40", "\\u1c41", "\\u1c42", "\\u1c43", "\\u1c44",
        "\\u1c45", "\\u1c46", "\\u1c47", "\\u1c48", "\\u1c49">>,
      <<"\\u1c50", "\\u1c51", "\\u1c52", "\\u1c53", "\\u1c54",
        "\\u1c55", "\\u1c56", "\\u1c57", "\\u1c58", "\\u1c59">>,
      <<"\\ua620", "\\ua621", "\\ua622", "\\ua623", "\\ua624",
        "\\ua625", "\\ua626", "\\ua627", "\\ua628", "\\ua629">>,
      <<"\\ua8d0", "\\ua8d1", "\\ua8d2", "\\ua8d3", "\\ua8d4",
        "\\ua8d5", "\\ua8d6", "\\ua8d7", "\\ua8d8", "\\ua8d9">>,
      <<"\\ua900", "\\ua901", "\\ua902", "\\ua903", "\\ua904",
        "\\ua905", "\\ua906", "\\ua907", "\\ua908", "\\ua909">>,
      <<"\\ua9d0", "\\ua9d1", "\\ua9d2", "\\ua9d3", "\\ua9d4",
        "\\ua9d5", "\\ua9d6", "\\ua9d7", "\\ua9d8", "\\ua9d9">>,
      <<"\\ua9f0", "\\ua9f1", "\\ua9f2", "\\ua9f3", "\\ua9f4",
        "\\ua9f5", "\\ua9f6", "\\ua9f7", "\\ua9f8", "\\ua9f9">>,
      <<"\\uaa50", "\\uaa51", "\\uaa52", "\\uaa53", "\\uaa54",
        "\\uaa55", "\\uaa56", "\\uaa57", "\\uaa58", "\\uaa59">>,
      <<"\\uabf0", "\\uabf1", "\\uabf2", "\\uabf3", "\\uabf4",
        "\\uabf5", "\\uabf6", "\\uabf7", "\\uabf8", "\\uabf9">>,
      <<"\\uff10", "\\uff11", "\\uff12", "\\uff13", "\\uff14",
        "\\uff15", "\\uff16", "\\uff17", "\\uff18", "\\uff19">>,
      <<"\\U000104a0", "\\U000104a1", "\\U000104a2", "\\U000104a3", "\\U000104a4",
        "\\U000104a5", "\\U000104a6", "\\U000104a7", "\\U000104a8", "\\U000104a9">>,
      <<"\\U00010d30", "\\U00010d31", "\\U00010d32", "\\U00010d33", "\\U00010d34",
        "\\U00010d35", "\\U00010d36", "\\U00010d37", "\\U00010d38", "\\U00010d39">>,
      <<"\\U00011066", "\\U00011067", "\\U00011068", "\\U00011069", "\\U0001106a",
        "\\U0001106b", "\\U0001106c", "\\U0001106d", "\\U0001106e", "\\U0001106f">>,
      <<"\\U000110f0", "\\U000110f1", "\\U000110f2", "\\U000110f3", "\\U000110f4",
        "\\U000110f5", "\\U000110f6", "\\U000110f7", "\\U000110f8", "\\U000110f9">>,
      <<"\\U00011136", "\\U00011137", "\\U00011138", "\\U00011139", "\\U0001113a",
        "\\U0001113b", "\\U0001113c", "\\U0001113d", "\\U0001113e", "\\U0001113f">>,
      <<"\\U000111d0", "\\U000111d1", "\\U000111d2", "\\U000111d3", "\\U000111d4",
        "\\U000111d5", "\\U000111d6", "\\U000111d7", "\\U000111d8", "\\U000111d9">>,
      <<"\\U000112f0", "\\U000112f1", "\\U000112f2", "\\U000112f3", "\\U000112f4",
        "\\U000112f5", "\\U000112f6", "\\U000112f7", "\\U000112f8", "\\U000112f9">>,
      <<"\\U00011450", "\\U00011451", "\\U00011452", "\\U00011453", "\\U00011454",
        "\\U00011455", "\\U00011456", "\\U00011457", "\\U00011458", "\\U00011459">>,
      <<"\\U000114d0", "\\U000114d1", "\\U000114d2", "\\U000114d3", "\\U000114d4",
        "\\U000114d5", "\\U000114d6", "\\U000114d7", "\\U000114d8", "\\U000114d9">>,
      <<"\\U00011650", "\\U00011651", "\\U00011652", "\\U00011653", "\\U00011654",
        "\\U00011655", "\\U00011656", "\\U00011657", "\\U00011658", "\\U00011659">>,
      <<"\\U000116c0", "\\U000116c1", "\\U000116c2", "\\U000116c3", "\\U000116c4",
        "\\U000116c5", "\\U000116c6", "\\U000116c7", "\\U000116c8", "\\U000116c9">>,
      <<"\\U00011730", "\\U00011731", "\\U00011732", "\\U00011733", "\\U00011734",
        "\\U00011735", "\\U00011736", "\\U00011737", "\\U00011738", "\\U00011739">>,
      <<"\\U000118e0", "\\U000118e1", "\\U000118e2", "\\U000118e3", "\\U000118e4",
        "\\U000118e5", "\\U000118e6", "\\U000118e7", "\\U000118e8", "\\U000118e9">>,
      <<"\\U00011950", "\\U00011951", "\\U00011952", "\\U00011953", "\\U00011954",
        "\\U00011955", "\\U00011956", "\\U00011957", "\\U00011958", "\\U00011959">>,
      <<"\\U00011c50", "\\U00011c51", "\\U00011c52", "\\U00011c53", "\\U00011c54",
        "\\U00011c55", "\\U00011c56", "\\U00011c57", "\\U00011c58", "\\U00011c59">>,
      <<"\\U00011d50", "\\U00011d51", "\\U00011d52", "\\U00011d53", "\\U00011d54",
        "\\U00011d55", "\\U00011d56", "\\U00011d57", "\\U00011d58", "\\U00011d59">>,
      <<"\\U00011da0", "\\U00011da1", "\\U00011da2", "\\U00011da3", "\\U00011da4",
        "\\U00011da5", "\\U00011da6", "\\U00011da7", "\\U00011da8", "\\U00011da9">>,
      <<"\\U00016a60", "\\U00016a61", "\\U00016a62", "\\U00016a63", "\\U00016a64",
        "\\U00016a65", "\\U00016a66", "\\U00016a67", "\\U00016a68", "\\U00016a69">>,
      <<"\\U00016ac0", "\\U00016ac1", "\\U00016ac2", "\\U00016ac3", "\\U00016ac4",
        "\\U00016ac5", "\\U00016ac6", "\\U00016ac7", "\\U00016ac8", "\\U00016ac9">>,
      <<"\\U00016b50", "\\U00016b51", "\\U00016b52", "\\U00016b53", "\\U00016b54",
        "\\U00016b55", "\\U00016b56", "\\U00016b57", "\\U00016b58", "\\U00016b59">>,
      <<"\\U0001d7ce", "\\U0001d7cf", "\\U0001d7d0", "\\U0001d7d1", "\\U0001d7d2",
        "\\U0001d7d3", "\\U0001d7d4", "\\U0001d7d5", "\\U0001d7d6", "\\U0001d7d7">>,
      <<"\\U0001d7d8", "\\U0001d7d9", "\\U0001d7da", "\\U0001d7db", "\\U0001d7dc",
        "\\U0001d7dd", "\\U0001d7de", "\\U0001d7df", "\\U0001d7e0", "\\U0001d7e1">>,
      <<"\\U0001d7e2", "\\U0001d7e3", "\\U0001d7e4", "\\U0001d7e5", "\\U0001d7e6",
        "\\U0001d7e7", "\\U0001d7e8", "\\U0001d7e9", "\\U0001d7ea", "\\U0001d7eb">>,
      <<"\\U0001d7ec", "\\U0001d7ed", "\\U0001d7ee", "\\U0001d7ef", "\\U0001d7f0",
        "\\U0001d7f1", "\\U0001d7f2", "\\U0001d7f3", "\\U0001d7f4", "\\U0001d7f5">>,
      <<"\\U0001d7f6", "\\U0001d7f7", "\\U0001d7f8", "\\U0001d7f9", "\\U0001d7fa",
        "\\U0001d7fb", "\\U0001d7fc", "\\U0001d7fd", "\\U0001d7fe", "\\U0001d7ff">>,
      <<"\\U0001e140", "\\U0001e141", "\\U0001e142", "\\U0001e143", "\\U0001e144",
        "\\U0001e145", "\\U0001e146", "\\U0001e147", "\\U0001e148", "\\U0001e149">>,
      <<"\\U0001e2f0", "\\U0001e2f1", "\\U0001e2f2", "\\U0001e2f3", "\\U0001e2f4",
        "\\U0001e2f5", "\\U0001e2f6", "\\U0001e2f7", "\\U0001e2f8", "\\U0001e2f9">>,
      <<"\\U0001e950", "\\U0001e951", "\\U0001e952", "\\U0001e953", "\\U0001e954",
        "\\U0001e955", "\\U0001e956", "\\U0001e957", "\\U0001e958", "\\U0001e959">>,
      <<"\\U0001fbf0", "\\U0001fbf1", "\\U0001fbf2", "\\U0001fbf3", "\\U0001fbf4",
        "\\U0001fbf5", "\\U0001fbf6", "\\U0001fbf7", "\\U0001fbf8", "\\U0001fbf9">>
    >>
OtherDigitSet == {OtherDigits[b][i] : b \in 1..Len(OtherDigits), i \in 1..10}
IsDigit(c) == IsCDigit(c) \/ c \in OtherDigitSet
DigitValue(c) ==
    IF IsCDigit(c) THEN (CHOOSE i \in 1..10 : Digits[i] = c) - 1
    ELSE (CHOOSE i \in 1..10 : \E b \in 1..Len(OtherDigits) : OtherDigits[b][i] = c) - 1
\* The characters str.strip() and int() drop are those str.isspace() accepts:
\* the space, \t, \n, \r, the form feed, the vertical tab (\x0b), the
\* separators \x1c..\x1f and the Unicode spaces. A character TLA+ has no
\* escape for is written as its Python escape.
WhiteSpace ==
    {" ", "\t", "\n", "\r", "\f", "\\x0b", "\\x1c", "\\x1d", "\\x1e", "\\x1f",
     "\\x85", "\\xa0", "\\u1680", "\\u2000", "\\u2001", "\\u2002", "\\u2003",
     "\\u2004", "\\u2005", "\\u2006", "\\u2007", "\\u2008", "\\u2009", "\\u200a",
     "\\u2028", "\\u2029", "\\u202f", "\\u205f", "\\u3000"}
IsSpace(c) == c \in WhiteSpace

\* str.strip()
RECURSIVE LStrip(_)
LStrip(s) == IF s # <<>> /\ IsSpace(Head(s)) THEN LStrip(Tail(s)) ELSE s
RECURSIVE RStrip(_)
RStrip(s) ==
    IF s # <<>> /\ IsSpace(s[Len(s)]) THEN RStrip(SubSeq(s, 1, Len(s) - 1)) ELSE s
Strip(s) == RStrip(LStrip(s))

\* int(text): an optional sign, then digits that single underscores may
\* separate ("1_7" is 17), at most 4300 digits in all; anything else is a
\* ValueError.
Unsigned(s) == IF s # <<>> /\ Head(s) \in {"-", "+"} THEN Tail(s) ELSE s
IsIntText(s) ==
    LET u == Unsigned(s)
    IN  /\ u # <<>>
        /\ IsDigit(u[1])
        /\ IsDigit(u[Len(u)])
        /\ \A i \in 1..Len(u) : IsDigit(u[i]) \/ u[i] = "_"
        /\ \A i \in 1..(Len(u) - 1) : ~(u[i] = "_" /\ u[i + 1] = "_")
        /\ Len(SelectSeq(u, IsDigit)) <= 4300
DigitsOf(s) == SelectSeq(s, IsDigit)
RECURSIVE DigitsValue(_)
DigitsValue(s) ==
    IF s = <<>> THEN 0 ELSE 10 * DigitsValue(SubSeq(s, 1, Len(s) - 1)) + DigitValue(s[Len(s)])
\* the value of a negative number is summed downwards, as its magnitude may
\* be one more than the largest positive number
RECURSIVE NegDigitsValue(_)
NegDigitsValue(s) ==
    IF s = <<>> THEN 0
    ELSE 10 * NegDigitsValue(SubSeq(s, 1, Len(s) - 1)) - DigitValue(s[Len(s)])
IntValue(s) ==
    IF s # <<>> /\ Head(s) = "-" THEN NegDigitsValue(DigitsOf(Unsigned(s)))
                                 ELSE DigitsValue(DigitsOf(Unsigned(s)))

\* int(f.read().strip())
PidTextOk(text) == IsIntText(Strip(text))
PidOf(text) == IntValue(Strip(text))

\* What the daemon writes into its PID record.
FormatPid(p) ==
    IF p < 10 THEN <<Digits[p + 1], "\n">>
              ELSE <<Digits[(p \div 10) + 1], Digits[(p % 10) + 1], "\n">>

\* os.kill takes a C int: a number above 2147483647 or below -2147483648 is
\* an OverflowError. The comparison is made on the digits.
CIntMaxDigits == <<"2", "1", "4", "7", "4", "8", "3", "6", "4", "7">>
CIntMinDigits == <<"2", "1", "4", "7", "4", "8", "3", "6", "4", "8">>
RECURSIVE StripZeros(_)
StripZeros(s) ==
    IF Len(s) > 1 /\ DigitValue(Head(s)) = 0 THEN StripZeros(Tail(s)) ELSE s
DigitsGreater(a, b) ==
    \/ Len(a) > Len(b)
    \/ /\ Len(a) = Len(b)
       /\ \E i \in 1..Len(a) :
             /\ DigitValue(a[i]) > DigitValue(b[i])
             /\ \A j \in 1..(i - 1) : DigitValue(a[j]) = DigitValue(b[j])
ExceedsCInt(text) ==
    LET s == Strip(text)
        magnitude == StripZeros(DigitsOf(Unsigned(s)))
    IN  IF s # <<>> /\ Head(s) = "-" THEN DigitsGreater(magnitude, CIntMinDigits)
                         ELSE DigitsGreater(magnitude, CIntMaxDigits)

\* What a probe call did: the value it returned, or the exception it raised.
Returned(v) == [raised |-> "none", value |-> v]
Raised(e) == [raised |-> e, value |-> FALSE]

\* os.kill(pid, 0) answering a: "ok" (the signal could be sent), "ESRCH"
\* (ProcessLookupError), "EPERM" (PermissionError); both errors are OSError.
\* The value of `except (OSError, ValueError)` when os.kill does not return.
OnKillError(a) == FALSE

\* `except (OSError, ValueError): return False` when int() raises ValueError
OnValueErrorPropagates == Raised("ValueError")
OnValueError == Returned(FALSE)

\* BitcoinCore.check_node_is_running(datadir), the PID record being `file` and
\* the OS answering `a` to the zero signal.
check_node_is_running(file, a) ==
    IF ~file.exists THEN Returned(FALSE)
    ELSE IF ~PidTextOk(file.text) THEN OnValueError
    ELSE IF ExceedsCInt(file.text) THEN Raised("OverflowError")
    ELSE IF a = "ok" THEN Returned(TRUE)
    ELSE Returned(OnKillError(a))

\* `if not pid_file.exists(): return True` of _check_node_exited
NoRecordStillRunning == Returned(FALSE)
NoRecordExited == Returned(TRUE)

\* RobustnessLib._check_node_exited(datadir)
check_node_exited(file, a) ==
    IF ~file.exists THEN NoRecordExited
    ELSE IF ~PidTextOk(file.text) THEN Returned(TRUE)
    ELSE IF ExceedsCInt(file.text) THEN Raised("OverflowError")
    ELSE IF a = "ok" THEN Returned(FALSE)
    ELSE Returned(TRUE)

\* ----------------------------------------------------- probe, stand-alone
\* the characters of the PID records SpecProbe tries, an Arabic-Indic seven
\* among them, and records whose number is at or beyond the ends of a C int
ProbeChars == {"1", "7", " ", "x", "-", "\n", "_", "\t", "\\u0667"}
RECURSIVE TextsUpTo(_)
TextsUpTo(n) ==
    IF n = 0 THEN {<<>>}
    ELSE LET shorter == TextsUpTo(n - 1)
         IN  shorter \cup {Append(s, c) : s \in shorter, c \in ProbeChars}
HugePidText == <<"9", "9", "9", "9", "9", "9", "9", "9", "9", "9", "\n">>
\* the least number a C int holds, and the number below it
LeastPidText == <<"-">> \o CIntMinDigits \o <<"\n">>
BelowLeastPidText == <<"-", "2", "1", "4", "7", "4", "8", "3", "6", "4", "9", "\n">>
ProbeFiles ==
    {Absent} \cup {File(s) : s \in TextsUpTo(MaxPidLen)
                                    \cup {HugePidText, LeastPidText, BelowLeastPidText}}
KillAnswers == {"ok", "ESRCH", "EPERM"}
NotCalled == [raised |-> "not called", value |-> FALSE]

InitProbe ==
    /\ p_file \in ProbeFiles
    /\ p_answer \in KillAnswers
    /\ p_running = NotCalled
    /\ p_exited = NotCalled

ProbeUnused ==
    /\ p_file = Absent
    /\ p_answer = "ESRCH"
    /\ p_running = NotCalled
    /\ p_exited = NotCalled

CallCheckNodeIsRunning ==
    /\ p_running = NotCalled
    /\ p_running' = check_node_is_running(p_file, p_answer)
    /\ UNCHANGED <<p_file, p_answer, p_exited>>

CallCheckNodeExited ==
    /\ p_exited = NotCalled
    /\ p_exited' = check_node_exited(p_file, p_answer)
    /\ UNCHANGED <<p_file, p_answer, p_running>>

\* ------------------------------------------------ wait_for_node_to_start
\* BitcoinCore.execute_bitcoin_cli: subprocess.run reports rc; a non-zero
\* status is a RuntimeError, otherwise the stripped output is returned.
execute_bitcoin_cli(rc) ==
    IF rc # 0 THEN Raised("RuntimeError") ELSE Returned("stdout")

\* range(timeout): the values the loop variable takes
RangeOneMore(timeout) == 0..timeout
Range(timeout) == 0..(timeout - 1)

\* `for i in range(timeout)` reaches value i: the body runs, or the loop is
\* exhausted and `raise RuntimeError("Node did not start within ...")` follows.
WaitFor(i) ==
    IF i \in Range(wt_timeout)
      THEN /\ wt_pc' = "query"
           /\ wt_i' = i
      ELSE /\ wt_pc' = "raised"
           /\ wt_i' = wt_i

\* wait_for_node_to_start(datadir, rpcport, timeout) is called.
wait_for_node_to_start ==
    /\ wt_pc = "idle"
    /\ WaitFor(0)
    /\ UNCHANGED <<wt_timeout, wt_queries, wt_sleeps>>

\* self.execute_bitcoin_cli(datadir, "getblockchaininfo", rpcport=rpcport):
\* `return` when it returns, `except RuntimeError` when it raises.
WaitQuery(rc) ==
    /\ wt_pc = "query"
    /\ wt_queries' = Append(wt_queries, rc)
    /\ wt_pc' = IF execute_bitcoin_cli(rc).raised = "none" THEN "returned" ELSE "sleep"
    /\ UNCHANGED <<wt_timeout, wt_i, wt_sleeps>>

\* time.sleep(1) in the except clause is over; the loop goes on.
WaitSleep ==
    /\ wt_pc = "sleep"
    /\ wt_sleeps' = wt_sleeps + 1
    /\ WaitFor(wt_i + 1)
    /\ UNCHANGED <<wt_timeout, wt_queries>>

WaitInit(timeouts) ==
    /\ wt_timeout \in timeouts
    /\ wt_pc = "idle"
    /\ wt_i = 0
    /\ wt_queries = <<>>
    /\ wt_sleeps = 0

WaitUnused == WaitInit({0})

\* ------------------------------------------------------- node lifecycle
Datadirs == {"victim_dir"}
NoDir == "none"
\* the exit status subprocess.run reports for the launch
ExitStatuses == {0, 1}
\* the processes a run launches in all
MaxPids == MaxRetries + 2

Live(p) == procs[p].state # "exited"
LiveIn(d) == {p \in DOMAIN procs : procs[p].dir = d /\ Live(p)}

\* The answers the OS can give to os.kill(pid, 0) for the number a record
\* names. A live daemon of the library answers "ok": to its own PID, to minus
\* its PID (a daemon leads the process group of its PID) and to -1 (every
\* process the caller may signal); 0 is the caller's own process group. Any
\* other number may or may not name a process of the machine, which may be the
\* caller's or not: a daemon that has ended and was not reaped, a process that
\* took the PID of one that ended, a process the library never launched. When
\* the record does not give os.kill a number the OS is not asked.
KillAnswer(file) ==
    IF file.exists /\ PidTextOk(file.text) /\ ~ExceedsCInt(file.text)
      THEN LET pid == PidOf(file.text)
           IN  IF pid = 0 THEN {"ok"}
               ELSE IF pid = -1 /\ \E p \in DOMAIN procs : Live(p) THEN {"ok"}
               ELSE IF \E p \in DOMAIN procs : Live(p) /\ (pid = p \/ pid = 0 - p)
                 THEN {"ok"}
               ELSE KillAnswers
      ELSE KillAnswers

\* The caller is in no lifecycle method.
CallerIdle == w_pc \in {"idle", "returned", "raised"} /\ f_pc = "none"

\* A launch that reports exit status 0 has left a daemon running on datadir d,
\* which records its PID.
Spawn(d) ==
    /\ Len(procs) < MaxPids
    /\ procs' = Append(procs, [dir |-> d, state |-> "running"])
    /\ pidfile' = [pidfile EXCEPT ![d] = File(FormatPid(Len(procs) + 1))]

\* `if result.returncode != 0: raise RuntimeError(...)` of a plain start: how
\* the call ends.
OnLaunchFailureIgnored == "ok"
OnLaunchFailure == "RuntimeError"

\* The launch of a plain start: subprocess.run, `if result.returncode != 0:
\* raise RuntimeError`; otherwise the method goes on to time.sleep(2).
PlainStart(d, rc) ==
    /\ CallerIdle
    /\ n_dir' = d
    /\ n_slept' = 0
    /\ IF rc # 0
         THEN /\ nret' = OnLaunchFailure
              /\ UNCHANGED <<procs, pidfile, f_pc>>
         ELSE /\ Spawn(d)
              /\ f_pc' = "plain_settle"
              /\ nret' = "pending"
    /\ UNCHANGED launches

\* BitcoinCore.start_bitcoin_node(datadir, port, ...)
start_bitcoin_node(d, rc) ==
    /\ PlainStart(d, rc)
    /\ n_op' = "start_bitcoin_node"

\* RobustnessLib.start_generator_node(datadir, port)
start_generator_node(d, rc) ==
    /\ PlainStart(d, rc)
    /\ n_op' = "start_generator_node"

\* time.sleep(2) of a plain start is over and the method returns; nothing is
\* looked at.
PlainSettleDelay == 2
PlainSettled ==
    /\ f_pc = "plain_settle"
    /\ f_pc' = "none"
    /\ nret' = "ok"
    /\ n_slept' = PlainSettleDelay
    /\ UNCHANGED <<procs, pidfile, n_dir, launches, n_op>>

\* How pkill -F (procps-ng) reads the record: the first eleven characters, up
\* to a NUL; of these strtoul skips the leading white space of C and takes an
\* optional sign and the ASCII digits that follow, after which the record has
\* to end or go on with a white space. The number is kept as a 32-bit int and
\* has to be 1 or more. What follows the number is not looked at.
CSpace == {" ", "\t", "\n", "\r", "\f", "\\x0b"}
RECURSIVE CLStrip(_)
CLStrip(s) == IF s # <<>> /\ Head(s) \in CSpace THEN CLStrip(Tail(s)) ELSE s
RECURSIVE LeadingDigits(_)
LeadingDigits(s) ==
    IF s # <<>> /\ IsCDigit(Head(s)) THEN <<Head(s)>> \o LeadingDigits(Tail(s)) ELSE <<>>
RECURSIVE UpToNul(_)
UpToNul(s) == IF s = <<>> \/ Head(s) = "\\x00" THEN <<>> ELSE <<Head(s)>> \o UpToNul(Tail(s))
PkillRead(text) == UpToNul(SubSeq(text, 1, IF Len(text) < 11 THEN Len(text) ELSE 11))

\* The value of a digit string modulo 2^32, as its two 16-bit halves, and
\* the negative of such a value.
RECURSIVE Mod32(_)
Mod32(ds) ==
    IF ds = <<>> THEN <<0, 0>>
    ELSE LET v == Mod32(SubSeq(ds, 1, Len(ds) - 1))
             lo == 10 * v[2] + DigitValue(ds[Len(ds)])
         IN  <<(10 * v[1] + lo \div 65536) % 65536, lo % 65536>>
Neg32(v) ==
    IF v[2] = 0 THEN <<(65536 - v[1]) % 65536, 0>> ELSE <<65535 - v[1], 65536 - v[2]>>

\* The 32 bits pkill keeps of the record's number.
PkillBits(text) ==
    LET body == CLStrip(PkillRead(text))
        v == Mod32(LeadingDigits(Unsigned(body)))
    IN  IF body # <<>> /\ Head(body) = "-" THEN Neg32(v) ELSE v
PkillValid(text) ==
    LET body == CLStrip(PkillRead(text))
        ds == LeadingDigits(Unsigned(body))
        rest == SubSeq(Unsigned(body), Len(ds) + 1, Len(Unsigned(body)))
    IN  /\ ds # <<>>
        /\ rest = <<>> \/ Head(rest) \in CSpace
        /\ PkillBits(text)[1] < 32768
        /\ PkillBits(text) # <<0, 0>>
PkillPid(text) == 65536 * PkillBits(text)[1] + PkillBits(text)[2]

\* pkill -F <pid file>: SIGTERM to the process the record names, if there is one.
Pkill(file) ==
    IF PkillValid(file.text)
       /\ PkillPid(file.text) \in DOMAIN procs /\ Live(PkillPid(file.text))
      THEN [procs EXCEPT ![PkillPid(file.text)].state = "terminating"]
      ELSE procs

\* the argument of time.sleep at the end of stop_bitcoin_node, whether or not
\* the PID record was found
StopSettleOnlyIfFound(found) == IF found THEN 1 ELSE 0
StopSettleDelay(found) == 1

\* BitcoinCore.stop_bitcoin_node(datadir): `if pid_file.exists():` pkill has
\* run, and time.sleep(1) is entered.
stop_bitcoin_node(d) ==
    /\ CallerIdle
    /\ procs' = IF pidfile[d].exists THEN Pkill(pidfile[d]) ELSE procs
    /\ f_pc' = "stop_settle"
    /\ nret' = "pending"
    /\ n_op' = "stop_bitcoin_node"
    /\ n_dir' = d
    /\ n_slept' = StopSettleDelay(pidfile[d].exists)
    /\ UNCHANGED <<pidfile, launches>>

\* time.sleep(1) of stop_bitcoin_node is over and the method returns; nothing
\* is looked at.
StopSettled ==
    /\ f_pc = "stop_settle"
    /\ f_pc' = "none"
    /\ nret' = "ok"
    /\ UNCHANGED <<procs, pidfile, n_dir, launches, n_op, n_slept>>

\* BitcoinCore.clean_node_directory(datadir): shutil.rmtree removes the data
\* directory, the PID record with it, whether or not a daemon runs on it.
clean_node_directory(d) ==
    /\ CallerIdle
    /\ pidfile' = [pidfile EXCEPT ![d] = Absent]
    /\ nret' = "ok"
    /\ n_op' = "clean_node_directory"
    /\ n_dir' = d
    /\ n_slept' = 0
    /\ UNCHANGED <<procs, f_pc, launches>>

\* A daemon ends: after SIGTERM, by a crash or by an injected fault. A clean
\* shutdown removes the PID record it wrote; a crash leaves it behind.
ProcExit(p, clean) ==
    /\ Live(p)
    /\ procs' = [procs EXCEPT ![p].state = "exited"]
    /\ pidfile' = IF clean /\ pidfile[procs[p].dir] = File(FormatPid(p))
                    THEN [pidfile EXCEPT ![procs[p].dir] = Absent]
                    ELSE pidfile
    /\ UNCHANGED <<f_pc, n_dir, nret, launches, n_op, n_slept>>

\* RobustnessLib.start_victim_node_with_fault_injection(datadir, ...): the
\* decorated _start_victim_node is called.
start_victim_node_with_fault_injection(d) ==
    /\ CallerIdle
    /\ w_func = "_start_victim_node"
    /\ WrapperCall
    /\ n_dir' = d
    /\ launches' = 0
    /\ nret' = "pending"
    /\ n_op' = "start_victim_node_with_fault_injection"
    /\ n_slept' = 0
    /\ UNCHANGED <<procs, pidfile, f_pc>>

\* The type of the exception a failure of _start_victim_node is: the two
\* the method raises itself are RuntimeErrors.
ExceptionType(kind) ==
    IF kind \in {"launch_failed", "exited_early"} THEN "RuntimeError" ELSE kind

\* `if result.returncode != 0:` of _start_victim_node
LaunchFailedNever(rc) == FALSE
LaunchFailed(rc) == rc # 0

\* _start_victim_node: subprocess.run(fiu-run ... bitcoind -daemon) reports rc.
VictimLaunch(rc) ==
    /\ w_pc = "call"
    /\ w_func = "_start_victim_node"
    /\ f_pc = "none"
    /\ launches' = launches + 1
    /\ IF LaunchFailed(rc)
         THEN /\ WrapperExcept("launch_failed")
              /\ UNCHANGED <<procs, pidfile, f_pc>>
         ELSE /\ Spawn(n_dir)
              /\ f_pc' = "settle"
              /\ UNCHANGED retryVars
    /\ nret' = IF w_pc' = "raised" THEN ExceptionType(w_result'.kind) ELSE nret
    /\ n_slept' = 0
    /\ UNCHANGED <<n_dir, n_op>>

\* _start_victim_node: time.sleep(3) returns.
VictimSettleDelay == 3
VictimSettle ==
    /\ f_pc = "settle"
    /\ f_pc' = "probe"
    /\ n_slept' = VictimSettleDelay
    /\ UNCHANGED retryVars
    /\ UNCHANGED <<procs, pidfile, n_dir, nret, launches, n_op>>

\* _start_victim_node: `if self._check_node_exited(datadir)` raises, else the
\* method returns.
VictimProbe ==
    /\ f_pc = "probe"
    /\ \E a \in KillAnswer(pidfile[n_dir]) :
          LET r == check_node_exited(pidfile[n_dir], a)
          IN  IF r.raised # "none" THEN WrapperExcept(r.raised)
              ELSE IF r.value THEN WrapperExcept("exited_early")
              ELSE WrapperReturn("None")
    /\ f_pc' = "none"
    /\ nret' = IF w_pc' = "raised" THEN ExceptionType(w_result'.kind)
               ELSE IF w_pc' = "returned" THEN "ok" ELSE nret
    /\ UNCHANGED <<procs, pidfile, n_dir, launches, n_op, n_slept>>

\* The retry delay of the decorated _start_victim_node ends.
VictimRetrySleep ==
    /\ w_func = "_start_victim_node"
    /\ WrapperSleep
    /\ UNCHANGED nodeVars

NodeInit ==
    /\ pidfile = [d \in Datadirs |-> Absent]
    /\ procs = <<>>
    /\ f_pc = "none"
    /\ n_dir = NoDir
    /\ nret = "ok"
    /\ launches = 0
    /\ n_op = "none"
    /\ n_slept = 0

NodeUnused == NodeInit

\* The decorator as the other specifications leave it: never called.
RetryUnused == RetryDecorated("op", {0}, {0})

InitRetry ==
    /\ RetryDecorated("op", 0..MaxRetries, WaitArgs \cup {NoArg})
    /\ MetricsUnused
    /\ NodeUnused
    /\ ProbeUnused
    /\ WaitUnused

notRetry == <<metricsVars, nodeVars, probeVars, waitVars>>
notMetrics == <<retryVars, nodeVars, probeVars, waitVars>>
notNode == <<metricsVars, probeVars, waitVars>>
notProbe == <<retryVars, metricsVars, nodeVars, waitVars>>
notWait == <<retryVars, metricsVars, nodeVars, probeVars>>
notSampler == <<notMetrics, readerVars>>

NextRetry ==
    \/ WrapperCall /\ UNCHANGED notRetry
    \/ OpReturns /\ UNCHANGED notRetry
    \/ OpRaises /\ UNCHANGED notRetry
    \/ WrapperSleep /\ UNCHANGED notRetry

SpecRetry == InitRetry /\ [][NextRetry]_vars

InitMetrics ==
    MetricsCollectorInit /\ RetryUnused /\ NodeUnused /\ ProbeUnused /\ WaitUnused

NextMetrics ==
    \/ \E c \in MainCaller, n \in SessionNames :
          start_metrics_collection(c, n) /\ UNCHANGED notSampler
    \/ \E c \in MainCaller : StartInit(c) /\ UNCHANGED notSampler
    \/ \E c \in MainCaller : StartEvent(c) /\ UNCHANGED notSampler
    \/ \E c \in MainCaller : StartThread(c) /\ UNCHANGED notSampler
    \/ \E c \in MainCaller : StartRegister(c) /\ UNCHANGED notSampler
    \/ \E c \in MainCaller, n \in SessionNames :
          stop_metrics_collection(c, n) /\ UNCHANGED notSampler
    \/ \E c \in MainCaller : StopSet(c) /\ UNCHANGED notSampler
    \/ \E c \in MainCaller : StopJoin(c) /\ UNCHANGED notSampler
    \/ \E c \in MainCaller : StopDelThread(c) /\ UNCHANGED notSampler
    \/ \E c \in MainCaller : StopDelEvent(c) /\ UNCHANGED notSampler
    \/ \E t \in DOMAIN threads : LoopExit(t) /\ UNCHANGED notSampler
    \/ \E t \in DOMAIN threads, ts \in 0..MaxClock, a \in SampleAnswers :
          LoopSample(t, ts, a[1], a[2]) /\ UNCHANGED notSampler
    \/ \E t \in DOMAIN threads : LoopAppend(t) /\ UNCHANGED notSampler
    \/ \E t \in DOMAIN threads : LoopWait(t) /\ UNCHANGED notSampler

SpecMetrics == InitMetrics /\ [][NextMetrics]_vars

\* The sampler with threads that are scheduled: a loop that can take its next
\* step (leave the wait, append once the lock is free, end on a set event)
\* eventually takes it. A sample in flight ends within the step that takes it;
\* every sample finds the node not answering, at the clock's first reading.
NextCancel ==
    \/ \E c \in MainCaller, n \in SessionNames :
          start_metrics_collection(c, n) /\ UNCHANGED notSampler
    \/ \E c \in MainCaller : StartInit(c) /\ UNCHANGED notSampler
    \/ \E c \in MainCaller : StartEvent(c) /\ UNCHANGED notSampler
    \/ \E c \in MainCaller : StartThread(c) /\ UNCHANGED notSampler
    \/ \E c \in MainCaller : StartRegister(c) /\ UNCHANGED notSampler
    \/ \E c \in MainCaller, n \in SessionNames :
          stop_metrics_collection(c, n) /\ UNCHANGED notSampler
    \/ \E c \in MainCaller : StopSet(c) /\ UNCHANGED notSampler
    \/ \E c \in MainCaller : StopJoin(c) /\ UNCHANGED notSampler
    \/ \E c \in MainCaller : StopDelThread(c) /\ UNCHANGED notSampler
    \/ \E c \in MainCaller : StopDelEvent(c) /\ UNCHANGED notSampler
    \/ \E t \in DOMAIN threads : LoopExit(t) /\ UNCHANGED notSampler
    \/ \E t \in DOMAIN threads :
          LoopSample(t, 0, RpcNone, RpcNone) /\ UNCHANGED notSampler
    \/ \E t \in DOMAIN threads : LoopAppend(t) /\ UNCHANGED notSampler
    \/ \E t \in DOMAIN threads : LoopWait(t) /\ UNCHANGED notSampler

LoopStep(t) ==
    /\ t \in DOMAIN threads
    /\ (LoopExit(t) \/ LoopAppend(t) \/ LoopWait(t))
    /\ UNCHANGED notSampler

SpecCancel ==
    InitMetrics /\ [][NextCancel]_vars /\ \A t \in ThreadIds : WF_vars(LoopStep(t))

\* The sampler of SpecMetrics with a caller that also asks for summaries and
\* exports, of the sampled name and of a name never started. The session is
\* started once and is not restarted after its stop.
NextReaders ==
    \/ \E c \in MainCaller, n \in SessionNames :
          /\ n \notin DOMAIN metrics_data
          /\ start_metrics_collection(c, n)
          /\ UNCHANGED notSampler
    \/ \E c \in MainCaller : StartInit(c) /\ UNCHANGED notSampler
    \/ \E c \in MainCaller : StartEvent(c) /\ UNCHANGED notSampler
    \/ \E c \in MainCaller : StartThread(c) /\ UNCHANGED notSampler
    \/ \E c \in MainCaller : StartRegister(c) /\ UNCHANGED notSampler
    \/ \E c \in MainCaller, n \in SessionNames :
          stop_metrics_collection(c, n) /\ UNCHANGED notSampler
    \/ \E c \in MainCaller : StopSet(c) /\ UNCHANGED notSampler
    \/ \E c \in MainCaller : StopJoin(c) /\ UNCHANGED notSampler
    \/ \E c \in MainCaller : StopDelThread(c) /\ UNCHANGED notSampler
    \/ \E c \in MainCaller : StopDelEvent(c) /\ UNCHANGED notSampler
    \/ \E t \in DOMAIN threads : LoopExit(t) /\ UNCHANGED notSampler
    \/ \E t \in DOMAIN threads, ts \in 0..MaxClock, a \in SampleAnswers :
          LoopSample(t, ts, a[1], a[2]) /\ UNCHANGED notSampler
    \/ \E t \in DOMAIN threads : LoopAppend(t) /\ UNCHANGED notSampler
    \/ \E t \in DOMAIN threads : LoopWait(t) /\ UNCHANGED notSampler
    \/ \E c \in MainCaller, n \in NodeNames :
          get_metrics_summary(c, n) /\ UNCHANGED notMetrics
    \/ \E c \in MainCaller : SummaryCompute(c) /\ UNCHANGED notMetrics
    \/ \E c \in MainCaller, n \in NodeNames :
          save_metrics_to_file(c, n) /\ UNCHANGED notMetrics
    \/ \E c \in MainCaller : SaveWrite(c) /\ UNCHANGED notMetrics

SpecReaders == InitMetrics /\ [][NextReaders]_vars

\* Sessions of both node names and a caller that stops them one by one or all
\* at once. Every sample finds the node not answering, at the clock's first
\* reading.
NextStopAll ==
    \/ \E c \in MainCaller, n \in NodeNames :
          ~InStopAll(c) /\ start_metrics_collection(c, n) /\ UNCHANGED notSampler
    \/ \E c \in MainCaller : StartInit(c) /\ UNCHANGED notSampler
    \/ \E c \in MainCaller : StartEvent(c) /\ UNCHANGED notSampler
    \/ \E c \in MainCaller : StartThread(c) /\ UNCHANGED notSampler
    \/ \E c \in MainCaller : StartRegister(c) /\ UNCHANGED notSampler
    \/ \E c \in MainCaller, n \in NodeNames :
          ~InStopAll(c) /\ stop_metrics_collection(c, n) /\ UNCHANGED notSampler
    \/ \E c \in MainCaller : StopSet(c) /\ UNCHANGED notSampler
    \/ \E c \in MainCaller : StopJoin(c) /\ UNCHANGED notSampler
    \/ \E c \in MainCaller : StopDelThread(c) /\ UNCHANGED notSampler
    \/ \E c \in MainCaller : StopDelEvent(c) /\ UNCHANGED notSampler
    \/ \E t \in DOMAIN threads : LoopExit(t) /\ UNCHANGED notSampler
    \/ \E t \in DOMAIN threads :
          LoopSample(t, 0, RpcNone, RpcNone) /\ UNCHANGED notSampler
    \/ \E t \in DOMAIN threads : LoopAppend(t) /\ UNCHANGED notSampler
    \/ \E t \in DOMAIN threads : LoopWait(t) /\ UNCHANGED notSampler
    \/ \E c \in MainCaller, n \in NodeNames, m \in NodeNames :
          stop_all_metrics_collection(c, <<n, m>>) /\ UNCHANGED notMetrics
    \/ \E c \in MainCaller, n \in NodeNames :
          stop_all_metrics_collection(c, <<n>>) /\ UNCHANGED notMetrics
    \/ \E c \in MainCaller :
          stop_all_metrics_collection(c, <<>>) /\ UNCHANGED notMetrics
    \/ \E c \in MainCaller : StopAllNext(c) /\ UNCHANGED notMetrics

SpecStopAll == InitMetrics /\ [][NextStopAll]_vars

\* ------------------------------------------- the lock, step by step
\* The methods above take self.metrics_lock, touch the list and release the
\* lock within one step. Below, entering a `with self.metrics_lock:` block and
\* running it are steps of their own, so that the lock is seen held:
\* metrics_lock is NoHolder, the thread in the block, or LockOwner(c) for a
\* caller c in the block.
LockOwner(c) == IF c = "c1" THEN -1 ELSE -2

\* The lock when the `with` block of a reader is left, before the method goes
\* on to compute or to write.
WithExit(c) == NoHolder

\* The loop enters `with self.metrics_lock:` with the sample it collected.
LoopAcquire(t) ==
    /\ threads[t].pc = "sampling"
    /\ metrics_lock = NoHolder
    /\ metrics_lock' = t
    /\ threads' = [threads EXCEPT ![t].pc = "locked"]
    /\ UNCHANGED <<metrics_data, now, summary, c_copy, out_file, log_warned, c_all>>
    /\ LoopVarsUnchanged

\* self.metrics_data[node_name].append(metrics) inside the block; the block is
\* left, by the append or by its KeyError, and the lock released.
LoopAppendLocked(t) ==
    /\ threads[t].pc = "locked"
    /\ metrics_lock = t
    /\ LET n == threads[t].node
       IN  metrics_data' =
             IF n \in DOMAIN metrics_data
               THEN [metrics_data EXCEPT ![n] = Append(@, threads[t].metrics)]
               ELSE metrics_data
    /\ metrics_lock' = NoHolder
    /\ threads' = [threads EXCEPT ![t].pc = "wait", ![t].metrics = NoMetrics]
    /\ UNCHANGED <<now, summary, c_copy, out_file, log_warned, c_all>>
    /\ LoopVarsUnchanged

\* start_metrics_collection, past its guard, enters `with self.metrics_lock:`
\* once the lock is free.
StartLock(c) ==
    /\ cpc[c] = "start_lock"
    /\ metrics_lock = NoHolder
    /\ metrics_lock' = LockOwner(c)
    /\ cpc' = [cpc EXCEPT ![c] = "start_reset"]
    /\ UNCHANGED <<collection_threads, stop_events, metrics_data, threads, now,
                   carg, cret, summary, c_copy, out_file, log_warned, c_all>>

\* self.metrics_data[node_name] = [] inside the block; the block is left and
\* the lock released. StartEvent, StartThread and StartRegister follow.
StartReset(c) ==
    /\ cpc[c] = "start_reset"
    /\ metrics_lock = LockOwner(c)
    /\ metrics_data' = Put(metrics_data, carg[c], <<>>)
    /\ metrics_lock' = NoHolder
    /\ cpc' = [cpc EXCEPT ![c] = "start_event"]
    /\ UNCHANGED <<collection_threads, stop_events, threads, now, carg, cret,
                   summary, c_copy, out_file, log_warned, c_all>>

\* A reader (get_metrics_summary, save_metrics_to_file) enters its
\* `with self.metrics_lock:` block; at is the caller's place inside it.
ReaderLock(c, n, at) ==
    /\ cpc[c] = "idle"
    /\ metrics_lock = NoHolder
    /\ metrics_lock' = LockOwner(c)
    /\ cpc' = [cpc EXCEPT ![c] = at]
    /\ carg' = [carg EXCEPT ![c] = n]
    /\ UNCHANGED <<collection_threads, stop_events, metrics_data, threads, now,
                   cret, summary, c_copy, out_file, log_warned, c_all>>

SummaryLock(c, n) == ReaderLock(c, n, "summary_copy")
SaveLock(c, n) == ReaderLock(c, n, "save_copy")

\* Inside the block of get_metrics_summary: `return {}` for a missing name,
\* else metrics = self.metrics_data[node_name].copy(); the block is left.
SummaryCopy(c) ==
    /\ cpc[c] = "summary_copy"
    /\ metrics_lock = LockOwner(c)
    /\ IF carg[c] \notin DOMAIN metrics_data
         THEN /\ summary' = [node |-> carg[c], value |-> EmptySummary]
              /\ metrics_lock' = NoHolder
              /\ cpc' = [cpc EXCEPT ![c] = "idle"]
              /\ carg' = [carg EXCEPT ![c] = NoName]
              /\ cret' = [cret EXCEPT ![c] = "summary"]
              /\ UNCHANGED c_copy
         ELSE /\ c_copy' = [c_copy EXCEPT ![c] = metrics_data[carg[c]]]
              /\ metrics_lock' = WithExit(c)
              /\ cpc' = [cpc EXCEPT ![c] = "summary_compute"]
              /\ UNCHANGED <<summary, carg, cret>>
    /\ UNCHANGED <<collection_threads, stop_events, metrics_data, threads, now,
                   out_file, log_warned, c_all>>

\* Inside the block of save_metrics_to_file, `if node_name not in
\* self.metrics_data`: a missing name goes to the warning with the block not
\* left (SaveWarn), else the list is copied and the block is left (SaveWrite
\* follows).
SaveCopy(c) ==
    /\ cpc[c] = "save_copy"
    /\ metrics_lock = LockOwner(c)
    /\ IF carg[c] \notin DOMAIN metrics_data
         THEN /\ cpc' = [cpc EXCEPT ![c] = "save_warn"]
              /\ UNCHANGED <<metrics_lock, c_copy>>
         ELSE /\ c_copy' = [c_copy EXCEPT ![c] = metrics_data[carg[c]]]
              /\ metrics_lock' = WithExit(c)
              /\ cpc' = [cpc EXCEPT ![c] = "save_write"]
    /\ UNCHANGED <<collection_threads, stop_events, metrics_data, threads, now,
                   carg, cret, summary, out_file, log_warned, c_all>>

\* self.logger.warning(f"No metrics data found for {node_name}") inside the
\* block: the handlers write the line to the console and the two log files;
\* `return` then leaves the block and the method.
SaveWarn(c) ==
    /\ cpc[c] = "save_warn"
    /\ metrics_lock = LockOwner(c)
    /\ log_warned' = TRUE
    /\ metrics_lock' = NoHolder
    /\ cpc' = [cpc EXCEPT ![c] = "idle"]
    /\ carg' = [carg EXCEPT ![c] = NoName]
    /\ cret' = [cret EXCEPT ![c] = "no_data"]
    /\ UNCHANGED <<collection_threads, stop_events, metrics_data, threads, now,
                   summary, c_copy, out_file, c_all>>

\* Sessions of both node names whose loops and whose caller take the lock step
\* by step; the caller asks for summaries and exports. Every sample finds the
\* node not answering, at the clock's first reading; no session is stopped.
NextLock ==
    \/ \E c \in MainCaller, n \in NodeNames :
          start_metrics_collection(c, n) /\ UNCHANGED notSampler
    \/ \E c \in MainCaller : StartLock(c) /\ UNCHANGED notMetrics
    \/ \E c \in MainCaller : StartReset(c) /\ UNCHANGED notMetrics
    \/ \E c \in MainCaller : StartEvent(c) /\ UNCHANGED notSampler
    \/ \E c \in MainCaller : StartThread(c) /\ UNCHANGED notSampler
    \/ \E c \in MainCaller : StartRegister(c) /\ UNCHANGED notSampler
    \/ \E t \in DOMAIN threads :
          LoopSample(t, 0, RpcNone, RpcNone) /\ UNCHANGED notSampler
    \/ \E t \in DOMAIN threads : LoopAcquire(t) /\ UNCHANGED notMetrics
    \/ \E t \in DOMAIN threads : LoopAppendLocked(t) /\ UNCHANGED notMetrics
    \/ \E t \in DOMAIN threads : LoopWait(t) /\ UNCHANGED notSampler
    \/ \E c \in MainCaller, n \in NodeNames : SummaryLock(c, n) /\ UNCHANGED notMetrics
    \/ \E c \in MainCaller : SummaryCopy(c) /\ UNCHANGED notMetrics
    \/ \E c \in MainCaller : SummaryCompute(c) /\ UNCHANGED notMetrics
    \/ \E c \in MainCaller, n \in NodeNames : SaveLock(c, n) /\ UNCHANGED notMetrics
    \/ \E c \in MainCaller : SaveCopy(c) /\ UNCHANGED notMetrics
    \/ \E c \in MainCaller : SaveWarn(c) /\ UNCHANGED notMetrics
    \/ \E c \in MainCaller : SaveWrite(c) /\ UNCHANGED notMetrics

SpecLock == InitMetrics /\ [][NextLock]_vars

\* One session name and two callers that may both be inside
\* start_metrics_collection or stop_metrics_collection at once; the second
\* caller may also stop through stop_all_metrics_collection. Every sample finds the node not answering, at
\* the clock's first reading.
NextRace ==
    \/ \E c \in Callers, n \in SessionNames :
          ~InStopAll(c) /\ start_metrics_collection(c, n) /\ UNCHANGED notSampler
    \/ \E c \in Callers : StartInit(c) /\ UNCHANGED notSampler
    \/ \E c \in Callers : StartEvent(c) /\ UNCHANGED notSampler
    \/ \E c \in Callers : StartThread(c) /\ UNCHANGED notSampler
    \/ \E c \in Callers : StartRegister(c) /\ UNCHANGED notSampler
    \/ \E c \in Callers, n \in SessionNames :
          ~InStopAll(c) /\ stop_metrics_collection(c, n) /\ UNCHANGED notSampler
    \/ \E c \in Callers : StopSet(c) /\ UNCHANGED notSampler
    \/ \E c \in Callers : StopJoin(c) /\ UNCHANGED notSampler
    \/ \E c \in Callers : StopDelThread(c) /\ UNCHANGED notSampler
    \/ \E c \in Callers : StopDelEvent(c) /\ UNCHANGED notSampler
    \/ \E t \in DOMAIN threads : LoopExit(t) /\ UNCHANGED notSampler
    \/ \E t \in DOMAIN threads :
          LoopSample(t, 0, RpcNone, RpcNone) /\ UNCHANGED notSampler
    \/ \E t \in DOMAIN threads : LoopAppend(t) /\ UNCHANGED notSampler
    \/ \E t \in DOMAIN threads : LoopWait(t) /\ UNCHANGED notSampler
    \/ \E c \in Callers \ MainCaller, n \in SessionNames :
          stop_all_metrics_collection(c, <<n>>) /\ UNCHANGED notMetrics
    \/ \E c \in Callers \ MainCaller : StopAllNext(c) /\ UNCHANGED notMetrics

SpecRace == InitMetrics /\ [][NextRace]_vars

InitProbeSpec ==
    InitProbe /\ RetryUnused /\ MetricsUnused /\ NodeUnused /\ WaitUnused

NextProbe ==
    \/ CallCheckNodeIsRunning /\ UNCHANGED notProbe
    \/ CallCheckNodeExited /\ UNCHANGED notProbe

SpecProbe == InitProbeSpec /\ [][NextProbe]_vars

\* _start_victim_node is decorated with the configured retry policy
\* (FAULT_INJECTION_RETRY_MAX, FAULT_INJECTION_RETRY_WAIT).
InitNode ==
    /\ RetryDecorated("_start_victim_node", 0..MaxRetries, {5})
    /\ NodeInit
    /\ MetricsUnused
    /\ ProbeUnused
    /\ WaitUnused

NextNode ==
    \/ \E d \in Datadirs, rc \in ExitStatuses :
          start_bitcoin_node(d, rc) /\ UNCHANGED retryVars /\ UNCHANGED notNode
    \/ \E d \in Datadirs, rc \in ExitStatuses :
          start_generator_node(d, rc) /\ UNCHANGED retryVars /\ UNCHANGED notNode
    \/ \E d \in Datadirs :
          stop_bitcoin_node(d) /\ UNCHANGED retryVars /\ UNCHANGED notNode
    \/ PlainSettled /\ UNCHANGED retryVars /\ UNCHANGED notNode
    \/ StopSettled /\ UNCHANGED retryVars /\ UNCHANGED notNode
    \/ \E d \in Datadirs :
          clean_node_directory(d) /\ UNCHANGED retryVars /\ UNCHANGED notNode
    \/ \E p \in DOMAIN procs, clean \in BOOLEAN :
          ProcExit(p, clean) /\ UNCHANGED retryVars /\ UNCHANGED notNode
    \/ \E d \in Datadirs :
          start_victim_node_with_fault_injection(d) /\ UNCHANGED notNode
    \/ \E rc \in ExitStatuses : VictimLaunch(rc) /\ UNCHANGED notNode
    \/ VictimSettle /\ UNCHANGED notNode
    \/ VictimProbe /\ UNCHANGED notNode
    \/ VictimRetrySleep /\ UNCHANGED notNode

SpecNode == InitNode /\ [][NextNode]_vars

\* wait_for_node_to_start with a timeout argument of -1..MaxTimeout; every
\* call the method makes returns, so the method always takes its next step.
InitWait ==
    /\ WaitInit(-1..MaxTimeout)
    /\ RetryUnused
    /\ MetricsUnused
    /\ NodeUnused
    /\ ProbeUnused

NextWait ==
    \/ wait_for_node_to_start /\ UNCHANGED notWait
    \/ \E rc \in ExitStatuses : WaitQuery(rc) /\ UNCHANGED notWait
    \/ WaitSleep /\ UNCHANGED notWait

SpecWait == InitWait /\ [][NextWait]_vars /\ WF_vars(NextWait)

\* ------------------------------------------------------------- claims
AllFailed == \A i \in 1..Len(calls) : ~calls[i].ok

\* C1: an operation that fails on every call is invoked exactly max_retries + 1
\* times, the wrapper raises exactly then, and what it raises is the exception
\* object of the last invocation.
C1_ExhaustedRaisesLast ==
    AllFailed =>
        /\ Len(calls) <= max_retries + 1
        /\ (w_pc = "raised") <=> (Len(calls) = max_retries + 1)
        /\ w_pc = "raised" => w_result = calls[Len(calls)].exc
        /\ w_pc # "returned"

C1_Witness ==
    /\ w_pc = "raised"
    /\ max_retries = 2
    /\ Len(calls) = 3
    /\ AllFailed
    /\ calls[1].exc.kind # calls[3].exc.kind
    /\ w_result = calls[3].exc

\* C2: k failures followed by a success make the wrapper return that value
\* after k + 1 invocations and k sleeps of wait_time each; a success is always
\* the last invocation, and the wrapper has returned as soon as it happened.
C2_SuccessAfterKFailures ==
    /\ \A i \in 1..Len(calls) : calls[i].ok => (i = Len(calls) /\ w_pc = "returned")
    /\ w_pc = "returned" =>
         /\ Len(calls) >= 1
         /\ calls[Len(calls)].ok
         /\ w_result = calls[Len(calls)].val
         /\ Len(calls) - 1 <= max_retries
         /\ Len(sleeps) = Len(calls) - 1
         /\ \A j \in 1..Len(sleeps) : sleeps[j] = wait_time

C2_Witness ==
    /\ w_pc = "returned"
    /\ max_retries = 3
    /\ Len(calls) = 3
    /\ Len(sleeps) = 2
    /\ wait_time = 5
    /\ w_result = "v2"

\* A session exists for n; stop_metrics_collection(n) has returned when none
\* does and the name has a list.
SessionActive(n) == n \in DOMAIN collection_threads \/ n \in DOMAIN stop_events
Stopped(n) == n \in DOMAIN metrics_data /\ ~SessionActive(n)

\* C3 (as claimed): once stop_metrics_collection(n) has returned, the list of n
\* does not grow until a later start for n.
C3_NoGrowthAfterStop ==
    [][\A n \in NodeNames :
          (Stopped(n) /\ ~SessionActive(n)')
              => Len(metrics_data'[n]) <= Len(metrics_data[n])]_vars

\* A loop that can still append: it holds a sample, or it has not been told
\* to stop.
CanAppend(t) ==
    \/ threads[t].pc = "sampling"
    \/ threads[t].pc \in {"top", "wait"} /\ ~threads[t].stop_set
Appenders(n) == {t \in DOMAIN threads : threads[t].node = n /\ CanAppend(t)}

\* C4 (as claimed): at most one loop is alive and able to append to the list
\* of a node name.
C4_AtMostOneLoopPerName ==
    \A n \in NodeNames : Cardinality(Appenders(n)) <= 1

\* C5: a start_metrics_collection call for a name whose session is active
\* returns at once with its warning: it changes no table, no thread and no
\* snapshot list, and the session stays.
C5_SecondStartIsNoOp ==
    [][\A c \in Callers, n \in NodeNames :
          (n \in DOMAIN collection_threads /\ start_metrics_collection(c, n))
              => /\ UNCHANGED <<collection_threads, stop_events, metrics_data, threads>>
                 /\ cpc'[c] = "idle"
                 /\ cret'[c] = "already_running"
                 /\ n \in DOMAIN collection_threads']_vars

\* A second start has returned with its warning while the session holds a
\* snapshot and its loop runs.
C5_Witness ==
    \E c \in Callers, n \in NodeNames :
        /\ cret[c] = "already_running"
        /\ cpc[c] = "idle"
        /\ n \in DOMAIN collection_threads
        /\ threads[collection_threads[n]].pc # "dead"
        /\ Len(metrics_data[n]) >= 1

\* C6 (as claimed): every stored snapshot holds a chain-state payload and a
\* peer list.
C6_SnapshotsComplete ==
    \A n \in DOMAIN metrics_data : \A i \in 1..Len(metrics_data[n]) :
        /\ "blockchain_info" \in DOMAIN metrics_data[n][i]
        /\ "peer_info" \in DOMAIN metrics_data[n][i]

\* C7 (as claimed): every snapshot list is ordered by non-decreasing timestamp.
C7_TimestampsOrdered ==
    \A n \in DOMAIN metrics_data : \A i, j \in 1..Len(metrics_data[n]) :
        i < j => metrics_data[n][i].timestamp <= metrics_data[n][j].timestamp

\* Every failed attempt of the current start failed at the post-settle probe.
ProbeFailuresOnly ==
    \A i \in 1..Len(calls) : ~calls[i].ok => calls[i].exc.kind = "exited_early"

\* C8: a fault-injected start whose attempts fail only at the probe has made
\* one launch per attempt and never more than max_retries + 1; it returns at
\* its first live probe, after k + 1 launches and k delays of wait_time each;
\* it fails exactly when the probe reported exited max_retries + 1 times.
C8_VictimStartRetries ==
    (w_pc # "idle" /\ ProbeFailuresOnly) =>
        /\ launches = Len(calls) + (IF f_pc \in {"settle", "probe"} THEN 1 ELSE 0)
        /\ launches <= max_retries + 1
        /\ \A i \in 1..Len(calls) :
              calls[i].ok => (i = Len(calls) /\ w_pc = "returned")
        /\ w_pc = "returned" =>
              /\ calls[Len(calls)].ok
              /\ Len(sleeps) = launches - 1
              /\ \A j \in 1..Len(sleeps) : sleeps[j] = wait_time
        /\ w_pc = "raised" =>
              /\ launches = max_retries + 1
              /\ Len(sleeps) = max_retries
              /\ AllFailed
        /\ (AllFailed /\ Len(calls) = max_retries + 1) => w_pc = "raised"

\* max_retries = 3, the probe reported exited twice and alive the third time.
C8_Witness ==
    /\ w_pc = "returned"
    /\ max_retries = 3
    /\ launches = 3
    /\ Len(sleeps) = 2
    /\ calls[1].exc.kind = "exited_early"
    /\ calls[2].exc.kind = "exited_early"
    /\ calls[3].ok

\* The record is absent, is not the text of an integer, or names a PID the OS
\* knows no process for.
NotRunningCase ==
    \/ ~p_file.exists
    \/ p_file.exists /\ ~PidTextOk(p_file.text)
    \/ /\ p_file.exists
       /\ PidTextOk(p_file.text)
       /\ ~ExceedsCInt(p_file.text)
       /\ p_answer = "ESRCH"

\* C9: check_node_is_running returns False and raises nothing when the PID
\* record is absent, does not parse as an integer, or names a PID for which
\* the OS reports no such process.
C9_NotRunningWithoutRaising ==
    (p_running # NotCalled /\ NotRunningCase) => p_running = Returned(FALSE)

\* The probe has answered for a record that is not a number.
C9_Witness ==
    /\ p_file.exists
    /\ ~PidTextOk(p_file.text)
    /\ Len(p_file.text) = 2
    /\ p_running = Returned(FALSE)

\* C10 (as claimed): at most one live node process belongs to a datadir.
C10_OneLivePerDatadir ==
    \A d \in Datadirs : Cardinality(LiveIn(d)) <= 1

\* What the health probe can answer for datadir d in the current state.
ProbeNow(d) == {check_node_is_running(pidfile[d], a) : a \in KillAnswer(pidfile[d])}

\* A step in which a start operation returns without error.
StartReturnsOk ==
    \/ f_pc = "plain_settle" /\ f_pc' = "none" /\ nret' = "ok"
    \/ f_pc = "probe" /\ w_pc' = "returned"

\* C11 (as claimed): a start operation, plain or fault-injected, returns
\* without error only when the health probe can find the PID record naming a
\* live process.
C11_StartedOnlyIfProbedLive ==
    [][StartReturnsOk => Returned(TRUE) \in ProbeNow(n_dir)]_vars

\* C18: stop_bitcoin_node raises nothing: the step that enters it asks for
\* termination only when the PID record exists, leaves the record alone and
\* goes to the settle delay of one second whether or not the record exists,
\* and the step that ends the delay returns normally.
C18_StopNeverRaises ==
    [][/\ (f_pc # "stop_settle" /\ f_pc' = "stop_settle")
             => /\ n_op' = "stop_bitcoin_node"
                /\ nret' = "pending"
                /\ n_slept' = 1
                /\ pidfile' = pidfile
                /\ ~pidfile[n_dir'].exists => procs' = procs
       /\ (f_pc = "stop_settle" /\ f_pc' # "stop_settle")
             => /\ nret' = "ok"
                /\ n_slept' = 1
                /\ pidfile' = pidfile
                /\ procs' = procs]_vars

\* stop_bitcoin_node has returned for a node that had already ended and
\* removed its PID record.
C18_Witness ==
    /\ n_op = "stop_bitcoin_node"
    /\ nret = "ok"
    /\ n_slept = 1
    /\ ~pidfile[n_dir].exists
    /\ \E p \in DOMAIN procs : procs[p].dir = n_dir /\ ~Live(p)
    /\ LiveIn(n_dir) = {}

\* C19 (as claimed): after stop_bitcoin_node(d) has returned, and until the
\* next lifecycle call, check_node_is_running(d) can return False.
C19_StoppedIsNotRunning ==
    (n_op = "stop_bitcoin_node" /\ nret = "ok") => Returned(FALSE) \in ProbeNow(n_dir)

\* The number of queries a call with this timeout may make.
QueryBudget == IF wt_timeout > 0 THEN wt_timeout ELSE 0
NoQueryAnswered == \A k \in 1..Len(wt_queries) : wt_queries[k] # 0

WaitSafe ==
    /\ Len(wt_queries) <= QueryBudget
    /\ \A k \in 1..Len(wt_queries) :
          wt_queries[k] = 0 => (k = Len(wt_queries) /\ wt_pc = "returned")
    /\ wt_pc = "returned" => wt_queries[Len(wt_queries)] = 0
    /\ wt_pc = "raised" => (NoQueryAnswered /\ Len(wt_queries) = QueryBudget)
    /\ (NoQueryAnswered /\ Len(wt_queries) = QueryBudget /\ wt_pc \notin {"idle", "query", "sleep"})
          => wt_pc = "raised"

\* C20: wait_for_node_to_start returns at the first query that succeeds and
\* makes no query after it, raises exactly when none of its queries succeeded,
\* makes at most `timeout` queries, and always ends.
C20_WaitPollsUntilAnswerOrTimeout ==
    []WaitSafe /\ <>(wt_pc \in {"returned", "raised"})

\* timeout 3: the node answers the third query.
C20_Witness ==
    /\ wt_timeout = 3
    /\ wt_pc = "returned"
    /\ wt_queries = <<1, 1, 0>>
    /\ wt_sleeps = 2

HasHeight(m) == "blockchain_info" \in DOMAIN m

\* A call of get_metrics_summary by c takes its copy in this step.
SummaryCopied(c) == cpc[c] = "idle" /\ cpc'[c] = "summary_compute"
\* A call of get_metrics_summary by c that took a copy returns in this step.
SummaryReturns(c) == cpc[c] = "summary_compute" /\ cpc'[c] # "summary_compute"

\* C12: the list get_metrics_summary works on is the list stored for the name
\* when the method held the lock, whatever is appended before it returns; for
\* a list that is not empty it returns total_snapshots = the length of the
\* list, initial_block_count and final_block_count = the block heights of the
\* first and the last snapshot (where the snapshot has a chain state), and
\* blocks_synced = their difference.
C12_SummaryOfSnapshots ==
    [][\A c \in Callers :
        /\ SummaryCopied(c)
              => /\ carg'[c] \in DOMAIN metrics_data
                 /\ c_copy'[c] = metrics_data[carg'[c]]
        /\ (cpc[c] = "summary_compute" /\ ~SummaryReturns(c))
              => c_copy'[c] = c_copy[c] /\ carg'[c] = carg[c]
        /\ (SummaryReturns(c) /\ c_copy[c] # <<>>)
          => LET s == c_copy[c]
                 v == summary'.value
             IN  /\ summary'.node = carg[c]
                 /\ cpc'[c] = "idle"
                 /\ v.total_snapshots = Len(s)
                 /\ HasHeight(s[1]) => v.initial_block_count = s[1].blockchain_info.blocks
                 /\ HasHeight(s[Len(s)])
                       => v.final_block_count = s[Len(s)].blockchain_info.blocks
                 /\ v.blocks_synced = v.final_block_count - v.initial_block_count]_vars

\* The summary of the one snapshot copied under the lock (height 100), returned
\* after the loop has appended a second snapshot (height 101) to the list.
C12_Witness ==
    /\ summary.node = "victim"
    /\ DOMAIN summary.value # {}
    /\ summary.value.total_snapshots = 1
    /\ summary.value.initial_block_count = 100
    /\ summary.value.final_block_count = 100
    /\ summary.value.blocks_synced = 0
    /\ "victim" \in DOMAIN metrics_data
    /\ Len(metrics_data["victim"]) = 2
    /\ HasHeight(metrics_data["victim"][1])
    /\ HasHeight(metrics_data["victim"][2])
    /\ metrics_data["victim"][1].blockchain_info.blocks = 100
    /\ metrics_data["victim"][2].blockchain_info.blocks = 101
    /\ \E c \in Callers : cpc[c] = "idle" /\ cret[c] = "summary"

\* C13: get_metrics_summary returns the empty dict and raises nothing for a
\* name that was never started and for a name whose list is empty, whatever
\* the state of the collector.
C13_SummaryOfNoData ==
    [][\A c \in Callers :
        /\ \A n \in NodeNames :
              (get_metrics_summary(c, n) /\ n \notin DOMAIN metrics_data)
              => /\ summary' = [node |-> n, value |-> EmptySummary]
                 /\ cret'[c] = "summary"
                 /\ cpc'[c] = "idle"
        /\ \A n \in NodeNames :
              (get_metrics_summary(c, n) /\ n \in DOMAIN metrics_data
                 /\ metrics_data[n] = <<>>)
              => c_copy'[c] = <<>> /\ cpc'[c] = "summary_compute" /\ carg'[c] = n
        /\ (SummaryReturns(c) /\ c_copy[c] = <<>>)
              => /\ summary' = [node |-> carg[c], value |-> EmptySummary]
                 /\ cret'[c] = "summary"
                 /\ cpc'[c] = "idle"]_vars

\* The summary of a name never started is empty while another node is sampled.
C13_Witness ==
    /\ summary = [node |-> "generator", value |-> EmptySummary]
    /\ "generator" \notin DOMAIN metrics_data
    /\ "victim" \in DOMAIN collection_threads
    /\ Len(metrics_data["victim"]) >= 1
    /\ \E c \in Callers : cret[c] = "summary"

\* C14: the list save_metrics_to_file writes is the list stored for the name
\* when the method took the lock, and reading the file back gives that list:
\* same length, same order, every field equal.
C14_ExportRoundTrip ==
    [][\A c \in Callers :
          /\ \A n \in NodeNames :
                (save_metrics_to_file(c, n) /\ n \in DOMAIN metrics_data)
                    => c_copy'[c] = metrics_data[n]
          /\ SaveWrite(c) => JsonLoad(out_file') = c_copy[c]]_vars

\* A file holds one snapshot, read back as stored, while the loop has
\* appended a second one since the copy was made.
C14_Witness ==
    /\ out_file # NoFile
    /\ Len(out_file.items) = 1
    /\ \E c \in Callers : cret[c] = "saved"
    /\ Len(metrics_data["victim"]) = 2
    /\ JsonLoad(out_file) = SubSeq(metrics_data["victim"], 1, 1)
    /\ HasHeight(metrics_data["victim"][1])

\* C15 (as claimed): once stop_metrics_collection(n) has returned, no sampler
\* operation removes a snapshot from the list of n.
C15_DataSurvivesStop ==
    [][\A n \in NodeNames :
          Stopped(n)
              => /\ n \in DOMAIN metrics_data'
                 /\ Len(metrics_data'[n]) >= Len(metrics_data[n])
                 /\ SubSeq(metrics_data'[n], 1, Len(metrics_data[n])) = metrics_data[n]]_vars

\* C16: a stop_metrics_collection step for a name without a session raises
\* nothing and changes no table, no thread and no snapshot list.
C16_StopWithoutSessionIsNoOp ==
    [][\A c \in Callers, n \in NodeNames :
          (n \notin DOMAIN collection_threads /\ stop_metrics_collection(c, n))
              => /\ UNCHANGED <<collection_threads, stop_events, metrics_data, threads, cpc>>
                 /\ cret'[c] = "not_running"]_vars

\* A second stop has returned with its warning; the snapshots are in place.
C16_Witness ==
    \E c \in Callers :
        /\ cret[c] = "not_running"
        /\ cpc[c] = "idle"
        /\ "victim" \in DOMAIN metrics_data
        /\ Len(metrics_data["victim"]) >= 1
        /\ ~SessionActive("victim")

AllStopped(c) ==
    cret[c] = "all_stopped"
        => /\ DOMAIN collection_threads = {}
           /\ DOMAIN stop_events = {}
           /\ \A t \in DOMAIN threads :
                 (\E i \in 1..Len(c_all[c].names) : c_all[c].names[i] = threads[t].node)
                     => threads[t].stop_set

NothingToStop(c) ==
    (InStopAll(c) /\ c_all[c].names = <<>> /\ StopAllNext(c))
        => /\ cret'[c] = "all_stopped"
           /\ UNCHANGED <<collection_threads, stop_events, metrics_data, threads>>

\* C17: when stop_all_metrics_collection has returned, both tables are empty
\* and the stop event of every session it listed is set; with no session it
\* returns without error having changed nothing.
C17_StopAllStopsAll ==
    /\ [](\A c \in Callers : AllStopped(c))
    /\ [][\A c \in Callers : NothingToStop(c)]_vars

\* stop_all has returned after stopping two sessions; a loop whose join timed
\* out is still in its sample, its event set.
C17_Witness ==
    \E c \in Callers :
        /\ cret[c] = "all_stopped"
        /\ Len(c_all[c].names) = 2
        /\ \E t \in DOMAIN threads : threads[t].pc = "sampling" /\ threads[t].stop_set

\* The PID record is in one of the four states a probe distinguishes: absent,
\* not a number, or the number of a process the OS was asked about (a number
\* os.kill cannot take as a C int is none of them: both probes raise
\* OverflowError before the OS is asked).
ProbedRecord ==
    \/ ~p_file.exists
    \/ ~PidTextOk(p_file.text)
    \/ ~ExceedsCInt(p_file.text)

\* C21: for every state of the PID record and every answer of the OS,
\* _check_node_exited returns the negation of check_node_is_running, neither
\* raises, and an absent record gives exited = True.
C21_ExitedIsNotRunning ==
    (p_running # NotCalled /\ p_exited # NotCalled /\ ProbedRecord) =>
        /\ p_running.raised = "none"
        /\ p_exited.raised = "none"
        /\ p_exited.value = ~p_running.value
        /\ ~p_file.exists => p_exited = Returned(TRUE)

\* Both probes have answered for an absent record.
C21_Witness ==
    /\ ~p_file.exists
    /\ p_running = Returned(FALSE)
    /\ p_exited = Returned(TRUE)

\* The record holds the PID of a process that exists: os.kill either sent the
\* zero signal or was refused for lack of permission.
ExistingProcess ==
    /\ p_file.exists
    /\ PidTextOk(p_file.text)
    /\ ~ExceedsCInt(p_file.text)
    /\ p_answer \in {"ok", "EPERM"}

\* C29 (as claimed): check_node_is_running returns True whenever the record
\* holds the PID of an existing process, whether the OS sent the signal or
\* refused it for lack of permission.
C29_RunningWheneverProcessExists ==
    (p_running # NotCalled /\ ExistingProcess) => p_running = Returned(TRUE)

\* C22 (as claimed): save_metrics_to_file writes no file for a name that has
\* no snapshots recorded: json.dump runs only on a list that is not empty.
C22_NoFileWithoutSnapshots ==
    [][\A c \in Callers : SaveWrite(c) => ListToWrite(c) # <<>>]_vars

\* The snapshots of a list in which the node returned a chain height.
WithHeight(s) == SelectSeq(s, HasHeight)

\* C30 (as claimed): blocks_synced is the last chain height the node returned
\* minus the first chain height it returned during the session, whatever the
\* sequence of successful and failed samples.
C30_BlocksSyncedOfReturnedHeights ==
    [][\A c \in Callers :
          (SummaryReturns(c) /\ WithHeight(c_copy[c]) # <<>>)
          => LET h == WithHeight(c_copy[c])
             IN  summary'.value.blocks_synced
                   = h[Len(h)].blockchain_info.blocks - h[1].blockchain_info.blocks]_vars

\* A plain start is called with a launch that reports exit status rc.
PlainStartCalled(d, rc) == start_bitcoin_node(d, rc) \/ start_generator_node(d, rc)

\* C28: a plain start launches once. A non-zero exit status ends the call at
\* once with RuntimeError: no process is left, no settle delay is waited, no
\* retry-wrapped launch is made; and while a plain start settles after a
\* launch with status 0 no further launch is made.
C28_PlainStartLaunchesOnce ==
    [][/\ \A d \in Datadirs, rc \in ExitStatuses \ {0} :
             PlainStartCalled(d, rc)
             => /\ nret' = "RuntimeError"
                /\ f_pc' = "none"
                /\ CallerIdle'
                /\ n_slept' = 0
                /\ procs' = procs
                /\ launches' = launches
                /\ sleeps' = sleeps
       /\ f_pc = "plain_settle"
             => /\ Len(procs') = Len(procs)
                /\ launches' = launches
                /\ f_pc' \in {"plain_settle", "none"}]_vars

\* The generator's start has raised on a failed launch, nothing slept, no
\* process started.
C28_Witness ==
    /\ n_op = "start_generator_node"
    /\ nret = "RuntimeError"
    /\ f_pc = "none"
    /\ n_slept = 0
    /\ procs = <<>>

\* C25: a stop event that is set stays set and a start makes a fresh, unset
\* event; a loop waiting or about to test the event when it is set takes no
\* further sample; and every loop whose event is set eventually ends.
C25_Cancellation ==
    /\ [][/\ \A t \in DOMAIN threads :
               (threads[t].stop_set /\ t \in DOMAIN threads')
               => /\ threads'[t].stop_set
                  /\ threads[t].pc \in {"wait", "top"}
                        => threads'[t].pc \in {"wait", "top", "dead"}
          /\ \A c \in Callers, n \in SessionNames :
               (cpc[c] = "start_event" /\ carg[c] = n /\ StartEvent(c))
               => /\ stop_events'[n] \notin DOMAIN threads
                  /\ ~threads'[stop_events'[n]].stop_set]_vars
    /\ \A t \in ThreadIds :
          (t \in DOMAIN threads /\ threads[t].stop_set)
             ~> (t \notin DOMAIN threads \/ threads[t].pc = "dead")

\* A loop that appended a snapshot has ended on its set event while the stop
\* still waits to join it.
C25_Witness ==
    \E c \in Callers, t \in DOMAIN threads :
        /\ cpc[c] = "stop_join"
        /\ threads[t].stop_set
        /\ threads[t].pc = "dead"
        /\ metrics_data[threads[t].node] # <<>>

\* Both queries of the sample failed: the snapshot holds no answer of the node.
FailedSnapshot(m) == "blockchain_info" \notin DOMAIN m /\ "peer_info" \notin DOMAIN m

\* C26: a loop's thread ends only on finding its stop event set at the top of
\* the loop; a sample, failed or not, is followed by the append and the wait,
\* and the wait by the next test of the event.
C26_FailedSampleKeepsLoop ==
    [][\A t \in DOMAIN threads :
          /\ (Alive(t) /\ (t \notin DOMAIN threads' \/ threads'[t].pc = "dead"))
                => (threads[t].pc = "top" /\ threads[t].stop_set)
          /\ (\E ts \in 0..MaxClock : LoopSample(t, ts, RpcNone, RpcNone))
                => threads'[t].pc \in {"sampling", "wait"}
          /\ (threads[t].pc = "sampling" /\ t \in DOMAIN threads')
                => threads'[t].pc \in {"sampling", "wait"}
          /\ (threads[t].pc = "wait" /\ t \in DOMAIN threads')
                => threads'[t].pc \in {"wait", "top"}]_vars

\* After a sample whose queries both failed the loop took another sample.
C26_Witness ==
    \E t \in DOMAIN threads :
        LET s == metrics_data[threads[t].node]
        IN  /\ Alive(t)
            /\ ~threads[t].stop_set
            /\ Len(s) = 2
            /\ FailedSnapshot(s[1])
            /\ HasHeight(s[2])

\* C27 (as claimed): a join that times out, the loop still running, is
\* reported by stop_metrics_collection.
C27_JoinTimeoutReported ==
    [][\A c \in Callers :
          (/\ StopJoin(c)
           /\ carg[c] \in DOMAIN collection_threads
           /\ Alive(collection_threads[carg[c]]))
          => cret'[c] = "join_timeout"]_vars

\* The lock is held by a thread inside its append block or by a caller inside
\* the block of a start, a summary or an export, and by nobody else.
LockHeldInsideBlocks ==
    /\ \A t \in DOMAIN threads : metrics_lock = t => threads[t].pc = "locked"
    /\ \A c \in Callers :
          metrics_lock = LockOwner(c)
             => cpc[c] \in {"start_reset", "summary_copy", "save_copy", "save_warn"}

\* The node whose list the holder of the lock is working on.
LockNode ==
    IF metrics_lock \in DOMAIN threads THEN threads[metrics_lock].node
    ELSE carg[CHOOSE c \in Callers : LockOwner(c) = metrics_lock]

\* The lock is held only inside the `with` blocks; a list is written (reset,
\* append) only by the holder of the lock working on that list, a reader's
\* copy is taken by the holder, which leaves the lock free when it goes on;
\* the output file is written, the summary computed and the node queried
\* without the lock.
ListTouchedUnderLock ==
    /\ []LockHeldInsideBlocks
    /\ [][/\ \A n \in DOMAIN metrics_data' :
               (n \notin DOMAIN metrics_data \/ metrics_data'[n] # metrics_data[n])
               => /\ metrics_lock # NoHolder
                  /\ LockNode = n
                  /\ metrics_lock' = NoHolder
          /\ \A c \in Callers :
               (c_copy'[c] # c_copy[c] /\ cpc[c] # "save_write" /\ cpc[c] # "summary_compute")
               => /\ metrics_lock = LockOwner(c)
                  /\ c_copy'[c] = metrics_data[carg[c]]
                  /\ metrics_lock' = NoHolder
          /\ \A c \in Callers :
               (SaveWrite(c) \/ SummaryCompute(c)) => metrics_lock # LockOwner(c)
          /\ \A t \in DOMAIN threads :
               LoopSample(t, 0, RpcNone, RpcNone) => metrics_lock # t]_vars

\* C23 (as claimed): every read and write of a list happens under the lock,
\* and a caller that writes a file (the output file, or the log files through
\* the logger's handlers) does not hold the lock while it writes.
C23_LockNeverAcrossFileIO ==
    /\ ListTouchedUnderLock
    /\ [][\A c \in Callers :
             (cpc'[c] # cpc[c] /\ (out_file' # out_file \/ log_warned' # log_warned))
             => metrics_lock # LockOwner(c)]_vars

\* The lock is held by a loop inside its append block or by a caller inside the
\* block of a summary or an export.
HeldByLoopOrReader ==
    \/ metrics_lock \in DOMAIN threads
    \/ \E c \in Callers :
          metrics_lock = LockOwner(c) /\ cpc[c] \in {"summary_copy", "save_copy", "save_warn"}

\* C24 (as claimed): a loop that is about to append never waits for the lock
\* while a loop, a summary or an export of another node holds it.
C24_AppendWaitsOnlyForOwnNode ==
    \A t \in DOMAIN threads :
        (threads[t].pc = "sampling" /\ HeldByLoopOrReader)
           => LockNode = threads[t].node

\* The attempt of _start_victim_node that ends in this step, if one does.
AttemptEnds == Len(calls') = Len(calls) + 1
EndedAttempt == calls'[Len(calls')]

\* C32: in the fault-injected start a launch that reports a non-zero status
\* fails the attempt at once, with no process left, no settle delay and no
\* probe; a launch that reports 0 goes to the settle delay with nothing
\* slept and nothing decided; the settle delay decides nothing either; an
\* attempt ends at the probe only after a launch with status 0 and the settle
\* delay of that attempt, and only the probe lets the start return.
C32_LaunchSettleProbe ==
    [][/\ \A rc \in ExitStatuses \ {0} :
             VictimLaunch(rc)
             => /\ f_pc' = "none"
                /\ w_pc' \in {"sleep", "raised"}
                /\ AttemptEnds
                /\ EndedAttempt.exc.kind = "launch_failed"
                /\ n_slept' = 0
                /\ procs' = procs
                /\ pidfile' = pidfile
       /\ VictimLaunch(0)
             => /\ f_pc' = "settle"
                /\ w_pc' = "call"
                /\ calls' = calls
                /\ n_slept' = 0
       /\ (f_pc # "probe" /\ f_pc' = "probe")
             => /\ f_pc = "settle"
                /\ n_slept = 0
                /\ n_slept' = VictimSettleDelay
                /\ launches' = Len(calls) + 1
                /\ w_pc' = "call"
                /\ calls' = calls
       /\ (AttemptEnds /\ (EndedAttempt.ok \/ EndedAttempt.exc.kind # "launch_failed"))
             => /\ f_pc = "probe"
                /\ f_pc' = "none"
                /\ n_slept = VictimSettleDelay
                /\ launches = Len(calls) + 1
       /\ (f_pc = "none" /\ AttemptEnds) => n_slept' = 0
       /\ (w_func = "_start_victim_node" /\ w_pc # "returned" /\ w_pc' = "returned")
             => f_pc = "probe" /\ n_slept = VictimSettleDelay]_vars

\* The first launch reported a failure, the second was probed alive after its
\* settle delay.
C32_Witness ==
    /\ n_op = "start_victim_node_with_fault_injection"
    /\ w_pc = "returned"
    /\ launches = 2
    /\ calls[1].exc.kind = "launch_failed"
    /\ calls[2].ok
    /\ n_slept = VictimSettleDelay

\* The calls of the current start that failed.
FailedCalls == {i \in 1..Len(calls) : ~calls[i].ok}

\* C33: whichever way the attempts of a fault-injected start fail (launch
\* status or probe), the start makes one launch per attempt and at most
\* max_retries + 1, sleeps wait_time after every failed attempt but the last
\* allowed one, returns at its first good attempt, and raises the exception
\* of its last attempt once max_retries + 1 attempts have failed.
C33_AnyFailureRetried ==
    (w_func = "_start_victim_node" /\ w_pc # "idle") =>
        /\ launches = Len(calls) + (IF f_pc \in {"settle", "probe"} THEN 1 ELSE 0)
        /\ launches <= max_retries + 1
        /\ \A i \in FailedCalls : calls[i].exc.kind \in {"launch_failed", "exited_early"}
        /\ \A i \in 1..Len(calls) :
              calls[i].ok => (i = Len(calls) /\ w_pc = "returned")
        /\ Len(sleeps) = (IF Cardinality(FailedCalls) <= max_retries
                            THEN Cardinality(FailedCalls) ELSE max_retries)
        /\ \A j \in 1..Len(sleeps) : sleeps[j] = wait_time
        /\ w_pc = "sleep" => Len(sleeps) = launches
        /\ w_pc = "returned" => Len(sleeps) = launches - 1
        /\ w_pc = "raised" <=> Cardinality(FailedCalls) = max_retries + 1
        /\ w_pc = "raised" =>
              /\ launches = max_retries + 1
              /\ w_result = calls[Len(calls)].exc
              /\ n_op = "start_victim_node_with_fault_injection" => nret = "RuntimeError"

\* Three attempts failed, the first and the last at the launch, the second at
\* the probe: the start raised the third attempt's exception.
C33_Witness ==
    /\ w_func = "_start_victim_node"
    /\ w_pc = "raised"
    /\ max_retries = 2
    /\ launches = 3
    /\ calls[1].exc.kind = "launch_failed"
    /\ calls[2].exc.kind = "exited_early"
    /\ w_result = Exc("launch_failed", 3)
    /\ sleeps = <<wait_time, wait_time>>

\* Every snapshot of every list names the node of the list.
SnapshotsNameTheirNode ==
    \A n \in DOMAIN metrics_data :
        \A i \in 1..Len(metrics_data[n]) : metrics_data[n][i].node_name = n

\* A step of the loop of thread t.
LoopStepOf(t) ==
    \/ LoopExit(t)
    \/ LoopSample(t, 0, RpcNone, RpcNone)
    \/ LoopAppend(t)
    \/ LoopWait(t)

\* C34: every snapshot stored in the list of node N carries node_name = N, and
\* no step of a loop started for a node removes a list or changes the list of
\* another node.
C34_IsolatedByName ==
    /\ []SnapshotsNameTheirNode
    /\ [][\A t \in DOMAIN threads :
             LoopStepOf(t)
             => \A n \in DOMAIN metrics_data :
                   /\ n \in DOMAIN metrics_data'
                   /\ n # threads[t].node => metrics_data'[n] = metrics_data[n]]_vars

\* Both nodes have a snapshot stored while both loops run.
C34_Witness ==
    /\ DOMAIN metrics_data = NodeNames
    /\ \A n \in NodeNames : metrics_data[n] # <<>>
    /\ \A n \in NodeNames : \E t \in DOMAIN threads : threads[t].node = n /\ Alive(t)

\* No caller is inside start_metrics_collection or stop_metrics_collection.
NoCallRunning == \A c \in Callers : cpc[c] = "idle"

\* C36: whenever the single caller's start, stop or stop-all call has
\* completed, the thread table and the stop-event table hold the same names,
\* all of which have a snapshot list; no stop has raised KeyError and every
\* loop holding a sample to append has its list.
C36_TablesAgree ==
    /\ NoCallRunning
          => /\ DOMAIN collection_threads = DOMAIN stop_events
             /\ DOMAIN collection_threads \subseteq DOMAIN metrics_data
    /\ \A c \in Callers : cret[c] # "KeyError"
    /\ \A t \in DOMAIN threads :
          threads[t].pc = "sampling" => threads[t].node \in DOMAIN metrics_data

\* One session was stopped and removed from both tables while the other is
\* still in both, its loop holding a sample to append.
C36_Witness ==
    /\ NoCallRunning
    /\ \A c \in Callers : cret[c] = "ok" /\ ~InStopAll(c)
    /\ DOMAIN metrics_data = NodeNames
    /\ DOMAIN collection_threads = {"generator"}
    /\ DOMAIN stop_events = {"generator"}
    /\ \E t \in DOMAIN threads : threads[t].node = "generator" /\ threads[t].pc = "sampling"

\* Thread t holds a sample it has still to append.
HoldsSample(th, t) == th[t].pc \in {"sampling", "locked"}

\* C31: a sampling loop appends at most one snapshot after its stop event was
\* set. With the event set, an append uses up the sample the loop holds, a
\* loop that holds no sample never comes to hold one, and a list grows by one
\* snapshot at a time; so the one append that can follow the signal is of the
\* sample held or being taken when the signal was set.
C31_OneAppendAfterStop ==
    [][\A t \in DOMAIN threads :
          threads[t].stop_set
          => /\ LoopAppend(t) => ~HoldsSample(threads', t)
             /\ (t \in DOMAIN threads' /\ HoldsSample(threads', t))
                   => (HoldsSample(threads, t) /\ threads'[t].metrics = threads[t].metrics)
             /\ \A n \in DOMAIN metrics_data :
                   Len(metrics_data'[n]) <= Len(metrics_data[n]) + 1]_vars

\* The session was stopped and started again; the loop of the stopped session
\* has appended the sample it held to the new list and is in its last wait.
C31_Witness ==
    \E t \in DOMAIN threads :
        /\ threads[t].stop_set
        /\ threads[t].pc = "wait"
        /\ threads[t].node \in DOMAIN collection_threads
        /\ collection_threads[threads[t].node] # t
        /\ threads[collection_threads[threads[t].node]].pc = "top"
        /\ Len(metrics_data[threads[t].node]) = 1

\* C35 (as claimed): however two stop_metrics_collection calls for the same
\* active name interleave, neither raises.
C35_ConcurrentStopsNeverRaise ==
    \A c \in Callers : cret[c] # "KeyError"
====
